---------------------------- MODULE Spec2Model ----------------------------
(***************************************************************************)
(* A model of the SSTV toolkit's signal pipeline: the encoder              *)
(* (src/utils/SSTVEncoder.js) and the decoder (src/utils/SSTVDecoder.js).  *)
(*                                                                         *)
(* Representation.  A sample buffer is a sequence of tone runs             *)
(* [f |-> frequency, n |-> samples]: the n samples addTone pushes for one  *)
(* tone.  Frequencies are kept in units of 1/255 Hz, so that the tone of   *)
(* pixel value v, 1500 + (v/255)*800 Hz, is the integer 382500 + 800*v.    *)
(* f = 0 is silence (samples equal to 0).  Durations are kept in           *)
(* microseconds; every Math.floor(duration * sampleRate) of the source is  *)
(* computed with the value IEEE-754 double arithmetic yields at 48000 Hz.  *)
(***************************************************************************)
EXTENDS Integers, Sequences, FiniteSets, TLC

VARIABLES
    enc,        \* the SSTVEncoder instance and the progress of generateAudio
    dec,        \* the SSTVDecoder instance fields (this.*)
    run,        \* the progress of the decoder call in flight (its locals)
    samples,    \* the sample buffer handed to the decoder
    panel       \* the DecoderPanel component: its props, state and calls in flight

vars == <<enc, dec, run, samples, panel>>
encVars == <<enc>>
decVars == <<dec, run, samples, panel>>

----------------------------------------------------------------------------
(* Bounds of the model *)

\* Half the width of the frames the decoder specifications decode.
MaxHalfWidth == 2
\* Half the number of lines of the frames the decoder specifications decode.
MaxLinePairs == 2

----------------------------------------------------------------------------
(* Constants of the program *)

SampleRate == 48000

FREQ_SYNC == 1200
FREQ_BLACK == 1500
FREQ_WHITE == 2300
FREQ_VIS_BIT1 == 1100
FREQ_VIS_BIT0 == 1300
FREQ_VIS_START == 1900
FREQ_VIS_STOP == 1200

\* The registry as the second copy of the encoder module holds it: the same
\* four descriptors, PD 120 registered under 0x5d.
SSTV_MODES_part_021 ==
    [ ROBOT36 |->
        [ name |-> "Robot 36", visCode |-> 8, scanTime |-> 150000,
          lines |-> 240, width |-> 320, syncPulse |-> 9000, syncPorch |-> 3000,
          separatorPulse |-> 0, componentTime |-> 0, colorFormat |-> "YUV" ],
      PD120 |->
        [ name |-> "PD 120", visCode |-> 93, scanTime |-> 532000,
          lines |-> 496, width |-> 640, syncPulse |-> 20000, syncPorch |-> 2080,
          separatorPulse |-> 0, componentTime |-> 121600, colorFormat |-> "PD" ],
      MARTIN1 |->
        [ name |-> "Martin M1", visCode |-> 44, scanTime |-> 146000,
          lines |-> 256, width |-> 320, syncPulse |-> 4862, syncPorch |-> 572,
          separatorPulse |-> 572, componentTime |-> 0, colorFormat |-> "RGB" ],
      SCOTTIE1 |->
        [ name |-> "Scottie S1", visCode |-> 60, scanTime |-> 138000,
          lines |-> 256, width |-> 320, syncPulse |-> 9000, syncPorch |-> 1500,
          separatorPulse |-> 1500, componentTime |-> 0, colorFormat |-> "RGB" ] ]

\* The mode registry.  Times are microseconds; a field a mode does not have
\* (undefined in the source, falsy where it is tested) is 0.
SSTV_MODES ==
    [ ROBOT36 |->
        [ name |-> "Robot 36", visCode |-> 8, scanTime |-> 150000,
          lines |-> 240, width |-> 320, syncPulse |-> 9000, syncPorch |-> 3000,
          separatorPulse |-> 0, componentTime |-> 0, colorFormat |-> "YUV" ],
      PD120 |->
        [ name |-> "PD 120", visCode |-> 95, scanTime |-> 532000,
          lines |-> 496, width |-> 640, syncPulse |-> 20000, syncPorch |-> 2080,
          separatorPulse |-> 0, componentTime |-> 121600, colorFormat |-> "PD" ],
      MARTIN1 |->
        [ name |-> "Martin M1", visCode |-> 44, scanTime |-> 146000,
          lines |-> 256, width |-> 320, syncPulse |-> 4862, syncPorch |-> 572,
          separatorPulse |-> 572, componentTime |-> 0, colorFormat |-> "RGB" ],
      SCOTTIE1 |->
        [ name |-> "Scottie S1", visCode |-> 60, scanTime |-> 138000,
          lines |-> 256, width |-> 320, syncPulse |-> 9000, syncPorch |-> 1500,
          separatorPulse |-> 1500, componentTime |-> 0, colorFormat |-> "RGB" ] ]

\* Object.entries(SSTV_MODES): the registry keys in insertion order.
ModeKeys == <<"ROBOT36", "PD120", "MARTIN1", "SCOTTIE1">>

RegistryKeys == DOMAIN SSTV_MODES

----------------------------------------------------------------------------
(* Arithmetic *)

Min(a, b) == IF a <= b THEN a ELSE b
Max(a, b) == IF a >= b THEN a ELSE b
Abs(a) == IF a >= 0 THEN a ELSE -a

\* Math.floor(p / q) for q > 0 and any integer p.
FloorDiv(p, q) == IF p >= 0 THEN p \div q ELSE -((-p + q - 1) \div q)

\* Math.round(p / q) for q > 0: round half up.
RoundDiv(p, q) == FloorDiv(2 * p + q, 2 * q)

\* Durations whose product with 48000 is an integer in exact arithmetic and
\* one ulp below it in double arithmetic: 0.009 * 48000 = 431.99999999999994,
\* 0.0045 * 48000 = 215.99999999999997, (0.009 + 0.0015) * 48000 =
\* 503.99999999999994.
IeeeShort == {9000, 4500, 10500}

\* Math.floor(duration * this.sampleRate) for a duration in microseconds.
FloorSamples(us) ==
    LET exact == (us * (SampleRate \div 1000)) \div 1000
    IN  IF us \in IeeeShort THEN exact - 1 ELSE exact

\* Sample counts n < 8192 for which (n / 48000) * 48000 is one ulp below n in
\* double arithmetic, so that Math.floor of it is n - 1.
IeeeRoundTripShort ==
    { 27, 49, 54, 61, 98, 101, 108, 115, 122, 196, 199, 202, 213, 216, 227,
      230, 233, 244, 247, 392, 395, 398, 401, 404, 423, 426, 429, 432, 435,
      454, 457, 460, 463, 466, 485, 488, 491, 494, 497, 784, 787, 790, 793,
      796, 799, 802, 805, 808, 846, 849, 852, 855, 858, 861, 864, 867, 870,
      873, 908, 911, 914, 917, 920, 923, 926, 929, 932, 935, 970, 973, 976,
      979, 982, 985, 988, 991, 994, 997, 1565, 1568, 1571, 1574, 1577, 1580,
      1583, 1586, 1589, 1592, 1595, 1598, 1601, 1604, 1607, 1610, 1613, 1616,
      1619, 1689, 1692, 1695, 1698, 1701, 1704, 1707, 1710, 1713, 1716, 1719,
      1722, 1725, 1728, 1731, 1734, 1737, 1740, 1743, 1746, 1813, 1816, 1819,
      1822, 1825, 1828, 1831, 1834, 1837, 1840, 1843, 1846, 1849, 1852, 1855,
      1858, 1861, 1864, 1867, 1870, 1940, 1943, 1946, 1949, 1952, 1955, 1958,
      1961, 1964, 1967, 1970, 1973, 1976, 1979, 1982, 1985, 1988, 1991, 1994,
      3003, 3009, 3015, 3021, 3027, 3033, 3039, 3045, 3051, 3057, 3063, 3069,
      3075, 3081, 3087, 3093, 3099, 3105, 3111, 3117, 3130, 3136, 3142, 3148,
      3154, 3160, 3166, 3172, 3178, 3184, 3190, 3196, 3202, 3208, 3214, 3220,
      3226, 3232, 3238, 3251, 3257, 3263, 3269, 3275, 3281, 3287, 3293, 3299,
      3305, 3311, 3317, 3323, 3329, 3335, 3341, 3347, 3353, 3359, 3365, 3378,
      3384, 3390, 3396, 3402, 3408, 3414, 3420, 3426, 3432, 3438, 3444, 3450,
      3456, 3462, 3468, 3474, 3480, 3486, 3492, 3505, 3511, 3517, 3523, 3529,
      3535, 3541, 3547, 3553, 3559, 3565, 3571, 3577, 3583, 3589, 3595, 3601,
      3607, 3613, 3626, 3632, 3638, 3644, 3650, 3656, 3662, 3668, 3674, 3680,
      3686, 3692, 3698, 3704, 3710, 3716, 3722, 3728, 3734, 3740, 3753, 3759,
      3765, 3771, 3777, 3783, 3789, 3795, 3801, 3807, 3813, 3819, 3825, 3831,
      3837, 3843, 3849, 3855, 3861, 3867, 3880, 3886, 3892, 3898, 3904, 3910,
      3916, 3922, 3928, 3934, 3940, 3946, 3952, 3958, 3964, 3970, 3976, 3982,
      3988, 4001, 4007, 4013, 4019, 4025, 4031, 4037, 4043, 4049, 4055, 4061,
      4067, 4073, 4079, 4085, 4091, 6005, 6006, 6017, 6018, 6029, 6030, 6041,
      6042, 6053, 6054, 6065, 6066, 6077, 6078, 6089, 6090, 6101, 6102, 6114,
      6126, 6127, 6138, 6139, 6150, 6151, 6162, 6163, 6174, 6175, 6186, 6187,
      6198, 6199, 6210, 6211, 6222, 6223, 6234, 6235, 6247, 6259, 6260, 6271,
      6272, 6283, 6284, 6295, 6296, 6307, 6308, 6319, 6320, 6331, 6332, 6343,
      6344, 6355, 6356, 6368, 6380, 6381, 6392, 6393, 6404, 6405, 6416, 6417,
      6428, 6429, 6440, 6441, 6452, 6453, 6464, 6465, 6476, 6477, 6489, 6501,
      6502, 6513, 6514, 6525, 6526, 6537, 6538, 6549, 6550, 6561, 6562, 6573,
      6574, 6585, 6586, 6597, 6598, 6609, 6610, 6622, 6634, 6635, 6646, 6647,
      6658, 6659, 6670, 6671, 6682, 6683, 6694, 6695, 6706, 6707, 6718, 6719,
      6730, 6731, 6743, 6755, 6756, 6767, 6768, 6779, 6780, 6791, 6792, 6803,
      6804, 6815, 6816, 6827, 6828, 6839, 6840, 6851, 6852, 6864, 6876, 6877,
      6888, 6889, 6900, 6901, 6912, 6913, 6924, 6925, 6936, 6937, 6948, 6949,
      6960, 6961, 6972, 6973, 6984, 6985, 6997, 7009, 7010, 7021, 7022, 7033,
      7034, 7045, 7046, 7057, 7058, 7069, 7070, 7081, 7082, 7093, 7094, 7105,
      7106, 7118, 7130, 7131, 7142, 7143, 7154, 7155, 7166, 7167, 7178, 7179,
      7190, 7191, 7202, 7203, 7214, 7215, 7226, 7227, 7239, 7251, 7252, 7263,
      7264, 7275, 7276, 7287, 7288, 7299, 7300, 7311, 7312, 7323, 7324, 7335,
      7336, 7347, 7348, 7359, 7360, 7372, 7384, 7385, 7396, 7397, 7408, 7409,
      7420, 7421, 7432, 7433, 7444, 7445, 7456, 7457, 7468, 7469, 7480, 7481,
      7493, 7505, 7506, 7517, 7518, 7529, 7530, 7541, 7542, 7553, 7554, 7565,
      7566, 7577, 7578, 7589, 7590, 7601, 7602, 7614, 7626, 7627, 7638, 7639,
      7650, 7651, 7662, 7663, 7674, 7675, 7686, 7687, 7698, 7699, 7710, 7711,
      7722, 7723, 7734, 7735, 7747, 7759, 7760, 7771, 7772, 7783, 7784, 7795,
      7796, 7807, 7808, 7819, 7820, 7831, 7832, 7843, 7844, 7855, 7856, 7868,
      7880, 7881, 7892, 7893, 7904, 7905, 7916, 7917, 7928, 7929, 7940, 7941,
      7952, 7953, 7964, 7965, 7976, 7977, 7989, 8001, 8002, 8013, 8014, 8025,
      8026, 8037, 8038, 8049, 8050, 8061, 8062, 8073, 8074, 8085, 8086, 8097,
      8098, 8109, 8110, 8122, 8134, 8135, 8146, 8147, 8158, 8159, 8170, 8171,
      8182, 8183 }

\* Math.floor(((end - start) / this.sampleRate) * this.sampleRate): the number
\* of samples a duration computed from a sample count n < 8192 amounts to.
RoundTripSamples(n) == IF n \in IeeeRoundTripShort THEN n - 1 ELSE n

\* Math.floor((k / N) * totalSamples).
Boundary(k, N, totalSamples) == (k * totalSamples) \div N

\* A frequency in Hz in the buffer's unit of 1/255 Hz.
Hz(f) == 255 * f

\* FREQ_BLACK + (value / 255) * (FREQ_WHITE - FREQ_BLACK), in 1/255 Hz.
PixelFreq(value) == Hz(FREQ_BLACK) + value * (FREQ_WHITE - FREQ_BLACK)

Clamp255(v) == Max(0, Min(255, v))

\* F(v), with v computed once: `const x = v` before the code that uses x.
With(v, F(_)) == CHOOSE r \in {F(x) : x \in {v}} : TRUE

----------------------------------------------------------------------------
(* Encoder input: rasters *)

\* The rasters handed to the encoder: a pattern decides the colour of each
\* pixel, so a raster of any size is one small value.
Patterns == {"gray", "quadrants"}

\* The image files handed to encodeImage.
FilePatterns == {"quadrants"}

\* data[(y * width + x) * 4 + 0..2] of the raster of `pattern`.
Pixel(pattern, w, h, x, y) ==
    IF pattern = "gray" THEN <<128, 128, 128>>
    ELSE IF 2 * y < h
         THEN (IF 2 * x < w THEN <<255, 0, 0>> ELSE <<0, 0, 255>>)
         ELSE (IF 2 * x < w THEN <<0, 255, 0>> ELSE <<255, 255, 255>>)

----------------------------------------------------------------------------
(* Sequences of numbers without deep recursion *)

\* The sum of f[lo..hi], halving the range (f is a sequence of integers).
RECURSIVE SumRange(_, _, _)
SumRange(f, lo, hi) ==
    IF lo > hi THEN 0
    ELSE IF lo = hi THEN f[lo]
    ELSE LET mid == (lo + hi) \div 2
         IN  SumRange(f, lo, mid) + SumRange(f, mid + 1, hi)

\* The sum of f[lo..hi] modulo m.
RECURSIVE SumRangeMod(_, _, _, _)
SumRangeMod(f, lo, hi, m) ==
    IF lo > hi THEN 0
    ELSE IF lo = hi THEN f[lo] % m
    ELSE LET mid == (lo + hi) \div 2
         IN  (SumRangeMod(f, lo, mid, m) + SumRangeMod(f, mid + 1, hi, m)) % m

\* (a * b) % m for 0 <= a < m, without leaving 32 bits.
RECURSIVE MulMod(_, _, _)
MulMod(a, b, m) ==
    IF b = 0 THEN 0
    ELSE LET h == MulMod(a, b \div 2, m)
         IN  (2 * h + (b % 2) * a) % m

\* The running totals of f: <<f[1], f[1] + f[2], ...>>, by doubling strides.
RECURSIVE RunningFrom(_, _)
RunningFrom(p, stride) ==
    IF stride >= Len(p) THEN p
    ELSE RunningFrom([k \in 1..Len(p) |->
                        IF k > stride THEN p[k] + p[k - stride] ELSE p[k]],
                     2 * stride)

Running(f) == IF Len(f) = 0 THEN f ELSE RunningFrom(f, 1)

----------------------------------------------------------------------------
(* The encoder: class SSTVEncoder *)

\* What SSTV_MODES[mode] evaluates to: a descriptor for a registry key, a
\* member of Object.prototype for a key every object inherits, undefined for
\* any other key.
InheritedKeys == {"constructor"}

LookupKind(key) ==
    IF key \in RegistryKeys THEN "descriptor"
    ELSE IF key \in InheritedKeys THEN "inherited"
    ELSE "undefined"

\* this.mode as the encoder reads it.  Every descriptor field of an inherited
\* member is undefined: a duration of undefined makes addTone push no sample
\* (Math.floor(NaN) samples), (undefined >> i) & 1 is 0, and undefined equals
\* neither 'PD' nor 'RGB'.
EncoderMode(key) ==
    IF key \in RegistryKeys THEN SSTV_MODES[key]
    ELSE [ name |-> "", visCode |-> 0, scanTime |-> 0, lines |-> 0, width |-> 0,
           syncPulse |-> 0, syncPorch |-> 0, separatorPulse |-> 0,
           componentTime |-> 0, colorFormat |-> "undefined" ]

\* One tone pushed by addTone(samples, frequency, duration).
Tone(f, n) == [f |-> f, n |-> n]

\* this.phase after a sequence of tones: each sample advances the phase by
\* 2*pi*f/sampleRate, and the phase is reduced modulo 2*pi.  The phase is kept
\* as the integer p with this.phase = 2*pi*p / (255*sampleRate).
ToneAdvance(tone) ==
    IF tone.n <= 2048
    THEN (tone.f * tone.n) % (255 * SampleRate)
    ELSE MulMod(tone.f, tone.n, 255 * SampleRate)

\* this.phase put back to 0 at the end of a tone.
PhaseAfter_Restart(phase, tones) == 0

PhaseAfter(phase, tones) ==
    (phase + SumRangeMod([k \in 1..Len(tones) |-> ToneAdvance(tones[k])],
                         1, Len(tones), 255 * SampleRate)) % (255 * SampleRate)

TotalSamples(tones) ==
    SumRange([k \in 1..Len(tones) |-> tones[k].n], 1, Len(tones))

\* The data bits taken from the most significant end: (visCode >> (6 - i)) & 1
Bit_MSBFirst(code, i) == (code \div (2 ^ (6 - i))) % 2

\* (visCode >> i) & 1
Bit(code, i) == (code \div (2 ^ i)) % 2

\* parity ^= bit over the 7 data bits.
Parity7(code) ==
    (Bit(code, 0) + Bit(code, 1) + Bit(code, 2) + Bit(code, 3) + Bit(code, 4)
       + Bit(code, 5) + Bit(code, 6)) % 2

VisBitFreq(bit) == IF bit = 1 THEN Hz(FREQ_VIS_BIT1) ELSE Hz(FREQ_VIS_BIT0)

\* The three tones addVISCode pushes before it reads this.mode.visCode.
VISLeaderTones ==
    << Tone(Hz(1900), FloorSamples(300000)),
       Tone(Hz(1200), FloorSamples(10000)),
       Tone(Hz(FREQ_VIS_START), FloorSamples(30000)) >>

\* The tones addVISCode pushes for a VIS code: leader, break, start bit,
\* 7 data bits LSB first, parity bit, stop bit.
VISTones(visCode) ==
    VISLeaderTones
    \o [i \in 1..7 |-> Tone(VisBitFreq(Bit(visCode, i - 1)), FloorSamples(30000))]
    \o << Tone(VisBitFreq(Parity7(visCode)), FloorSamples(30000)),
          Tone(Hz(FREQ_VIS_STOP), FloorSamples(30000)) >>

\* Math.floor(timePerPixel * sampleRate) with timePerPixel = scanTime / width.
PixelSamples(scanTime, width) ==
    (scanTime * (SampleRate \div 1000)) \div (width * 1000)

\* addScanLine: one tone of scanTime / width per pixel of channel `channel`.
ScanLineTones(mode, img, y, channel) ==
    [x \in 1..img.width |->
        Tone(PixelFreq(Pixel(img.pattern, img.width, img.height, x - 1, y)[channel + 1]),
             PixelSamples(mode.scanTime, img.width))]

\* Math.round(0.299 R + 0.587 G + 0.114 B), clamped.
Luma(rgb) == Clamp255(RoundDiv(299 * rgb[1] + 587 * rgb[2] + 114 * rgb[3], 1000))

\* The tone lengths of a scan of N pixels over totalSamples, each computed as
\* (end - start) / sampleRate from the absolute boundaries.
BoundaryTone(f, k, N, totalSamples) ==
    Tone(f, RoundTripSamples(Boundary(k + 1, N, totalSamples)
                               - Boundary(k, N, totalSamples)))

\* r, g, b of addScanLineYUV's chroma pixel: the mean of two adjacent columns,
\* times 2 (kept as an integer).
PairSum(img, x, y, c) ==
    Pixel(img.pattern, img.width, img.height, x, y)[c]
      + Pixel(img.pattern, img.width, img.height, Min(x + 1, img.width - 1), y)[c]

\* Math.round(isVLine ? V : U), clamped, with
\* U = 128 - 0.14713 r - 0.28886 g + 0.436 b, V = 128 + 0.615 r - 0.51499 g - 0.10001 b.
ChromaValue(img, x, y) ==
    LET r2 == PairSum(img, x, y, 1)
        g2 == PairSum(img, x, y, 2)
        b2 == PairSum(img, x, y, 3)
        U  == RoundDiv(128 * 200000 - 14713 * r2 - 28886 * g2 + 43600 * b2, 200000)
        V  == RoundDiv(128 * 200000 + 61500 * r2 - 51499 * g2 - 10001 * b2, 200000)
    IN  Clamp255(IF y % 2 = 0 THEN V ELSE U)

\* addScanLineYUV: the Y scan and the chroma scan at half width (rasters have
\* an even width); the separator and the porch between them are in LineTones.
YScanTones(img, y) ==
    [x \in 1..img.width |->
        BoundaryTone(PixelFreq(Luma(Pixel(img.pattern, img.width, img.height, x - 1, y))),
                     x - 1, img.width, FloorSamples(88000))]

ChromaScanTones(img, y) ==
    [c \in 1..(img.width \div 2) |->
        BoundaryTone(PixelFreq(ChromaValue(img, 2 * (c - 1), y)),
                     c - 1, img.width \div 2, FloorSamples(44000))]

\* addScanLinePD's four components for the line pair (y, y1).
PDComponentValue(mode, img, x, y, comp) ==
    LET y1 == Min(y + 1, mode.lines - 1)
        p0 == Pixel(img.pattern, img.width, img.height, x, y)
        p1 == Pixel(img.pattern, img.width, img.height, x, y1)
        r2 == p0[1] + p1[1]
        g2 == p0[2] + p1[2]
        b2 == p0[3] + p1[3]
        \* 2000 * Y of the averaged pixel
        Y2000 == 299 * r2 + 587 * g2 + 114 * b2
    IN  CASE comp = 0 -> RoundDiv(299 * p0[1] + 587 * p0[2] + 114 * p0[3], 1000)
          [] comp = 1 -> RoundDiv(128 * 2000000 + 701 * (1000 * r2 - Y2000), 2000000)
          [] comp = 2 -> RoundDiv(128 * 2000000 + 886 * (1000 * b2 - Y2000), 2000000)
          [] OTHER   -> RoundDiv(299 * p1[1] + 587 * p1[2] + 114 * p1[3], 1000)

PDComponentTones(mode, img, y, comp) ==
    [x \in 1..img.width |->
        BoundaryTone(PixelFreq(Clamp255(PDComponentValue(mode, img, x - 1, y, comp))),
                     x - 1, img.width, FloorSamples(mode.componentTime))]

SyncTones(mode) ==
    << Tone(Hz(FREQ_SYNC), FloorSamples(mode.syncPulse)),
       Tone(Hz(FREQ_BLACK), FloorSamples(mode.syncPorch)) >>

SeparatorTones(mode) ==
    IF mode.separatorPulse # 0
    THEN << Tone(Hz(FREQ_SYNC), FloorSamples(mode.separatorPulse)) >>
    ELSE << >>

\* The scans of one iteration of addImageData's loop (a line, or a PD line
\* pair), in the order they are emitted.
LineScans(mode, img, y) ==
    IF mode.colorFormat = "PD"
    THEN [c \in 1..4 |-> PDComponentTones(mode, img, y, c - 1)]
    ELSE IF mode.colorFormat = "RGB"
    THEN << ScanLineTones(mode, img, y, 1), ScanLineTones(mode, img, y, 2),
            ScanLineTones(mode, img, y, 0) >>
    ELSE << YScanTones(img, y), ChromaScanTones(img, y) >>

\* All the tones of that iteration, `scans` being LineScans(mode, img, y).
LineTones(mode, scans, y) ==
    IF mode.colorFormat = "PD"
    THEN SyncTones(mode) \o scans[1] \o scans[2] \o scans[3] \o scans[4]
    ELSE IF mode.colorFormat = "RGB"
    THEN SyncTones(mode)
         \o scans[1] \o SeparatorTones(mode)
         \o scans[2] \o SeparatorTones(mode)
         \o scans[3]
    ELSE SyncTones(mode)
         \o scans[1]
         \o << Tone(IF y % 2 = 0 THEN Hz(FREQ_BLACK) ELSE Hz(FREQ_WHITE),
                    FloorSamples(4500)),
               Tone(Hz(FREQ_BLACK), FloorSamples(1500)) >>
         \o scans[2]

\* The duration the scan is meant to fill: scanTime per channel (RGB),
\* 88 ms and 44 ms (Robot 36), componentTime (PD).
ScanDurations(mode) ==
    IF mode.colorFormat = "PD"
    THEN [c \in 1..4 |-> mode.componentTime]
    ELSE IF mode.colorFormat = "RGB"
    THEN [c \in 1..3 |-> mode.scanTime]
    ELSE << 88000, 44000 >>

\* What the model keeps of an emitted scan: its number of pixels, the samples
\* its duration amounts to, and for k = 0..N the number of samples of the scan
\* pushed when pixel k's tone begins (for k = N: when the scan ends).
ScanRecord(tones, duration) ==
    [ N      |-> Len(tones),
      total  |-> FloorSamples(duration),
      starts |-> <<0>> \o Running([k \in 1..Len(tones) |-> tones[k].n]) ]

LineRecord(mode, scans) ==
    [c \in 1..Len(scans) |-> ScanRecord(scans[c], ScanDurations(mode)[c])]

----------------------------------------------------------------------------
(* The encoder as a state machine *)

\* Half the number of rows of the short rasters handed to generateAudio.
ShortLinePairs == 2

\* The mode keys the encoder is constructed with: the registry keys, a key
\* that names nothing, and a key every JavaScript object inherits.
EncoderKeys == RegistryKeys \cup {"FOO"} \cup InheritedKeys

NoRaster == [pattern |-> "none", width |-> 0, height |-> 0]

\* new SSTVEncoder(mode): this.mode = SSTV_MODES[mode], this.phase = 0.
EncoderNew(key) ==
    [ pc |-> "new", key |-> key, entry |-> "none", img |-> NoRaster,
      phase |-> 0, n |-> 0, y |-> 0, vis |-> << >>, line |-> << >>,
      result |-> "none", wavSamples |-> 0 ]

\* encodeImage(file): the file is drawn onto a canvas of this.mode.width by
\* this.mode.lines, whose pixels go to generateAudio.  Reading .width of an
\* undefined mode throws; a canvas whose width is undefined has no pixel to
\* read and getImageData throws.
EncodeImage(pattern) ==
    /\ enc.pc = "new"
    /\ IF LookupKind(enc.key) = "descriptor"
       THEN enc' = [enc EXCEPT !.pc = "vis", !.entry = "encodeImage",
                               !.img = [pattern |-> pattern,
                                        width |-> SSTV_MODES[enc.key].width,
                                        height |-> SSTV_MODES[enc.key].lines]]
       ELSE enc' = [enc EXCEPT !.pc = "error", !.entry = "encodeImage",
                               !.result = "error"]
    /\ UNCHANGED decVars

\* generateAudio(imageData) called with a raster of the caller's own.
GenerateAudio(pattern, width, height) ==
    /\ enc.pc = "new"
    /\ enc' = [enc EXCEPT !.pc = "vis", !.entry = "generateAudio",
                          !.img = [pattern |-> pattern, width |-> width,
                                   height |-> height]]
    /\ UNCHANGED decVars

\* addVISCode(samples): three tones, then this.mode.visCode is read, which
\* throws when this.mode is undefined.
AddVISCode ==
    /\ enc.pc = "vis"
    /\ IF LookupKind(enc.key) = "undefined"
       THEN enc' = [enc EXCEPT !.pc = "error", !.result = "error",
                               !.vis = VISLeaderTones,
                               !.n = TotalSamples(VISLeaderTones),
                               !.phase = PhaseAfter(enc.phase, VISLeaderTones)]
       ELSE LET tones == VISTones(EncoderMode(enc.key).visCode)
            IN  enc' = [enc EXCEPT !.pc = "image", !.vis = tones,
                                   !.n = TotalSamples(tones),
                                   !.phase = PhaseAfter(enc.phase, tones)]
    /\ UNCHANGED decVars

\* One iteration of addImageData's loop over y < imageData.height: a line, or
\* a line pair for PD.
AddImageLine ==
    /\ enc.pc = "image"
    /\ enc.y < enc.img.height
    /\ LET mode  == EncoderMode(enc.key)
           scans == LineScans(mode, enc.img, enc.y)
           tones == LineTones(mode, scans, enc.y)
       IN  enc' = [enc EXCEPT
                     !.y = IF mode.colorFormat = "PD" THEN enc.y + 2 ELSE enc.y + 1,
                     !.n = enc.n + TotalSamples(tones),
                     !.phase = PhaseAfter(enc.phase, tones),
                     !.line = LineRecord(mode, scans)]
    /\ UNCHANGED decVars

\* createWAV(samples): the Blob generateAudio returns.
CreateWAV ==
    /\ enc.pc = "image"
    /\ enc.y >= enc.img.height
    /\ enc' = [enc EXCEPT !.pc = "done", !.result = "wav", !.wavSamples = enc.n]
    /\ UNCHANGED decVars

\* The DecoderPanel while it is not rendered.
PanelIdle == panel = [mounted |-> FALSE]

\* The decoder's variables while only the encoder runs.
DecoderIdle ==
    /\ dec = [mode |-> "none"]
    /\ run = [pc |-> "idle"]
    /\ samples = << >>
    /\ PanelIdle

EncInit ==
    /\ \E key \in EncoderKeys : enc = EncoderNew(key)
    /\ DecoderIdle

EncNext ==
    \/ \E pattern \in FilePatterns : EncodeImage(pattern)
    \/ \E pattern \in Patterns :
         GenerateAudio(pattern,
                       IF enc.key \in RegistryKeys THEN SSTV_MODES[enc.key].width ELSE 320,
                       2 * ShortLinePairs)
    \/ AddVISCode
    \/ AddImageLine
    \/ CreateWAV

\* The encoder alone: every mode key, full-size and short rasters.
SpecEnc == EncInit /\ [][EncNext]_vars

----------------------------------------------------------------------------
(* Claims about the encoder, checked under SpecEnc *)

\* The encoder has left generateAudio or encodeImage, with a result.
EncoderReturned == enc.pc \in {"done", "error"}

\* C7 as stated: encoding with a mode key that is not a registry key fails
\* with an error before any audio sample is produced, and returns no WAV.
C7_UnknownKeyFailsBeforeAnySample ==
    enc.key \notin RegistryKeys =>
        /\ enc.n = 0
        /\ enc.result # "wav"
        /\ (EncoderReturned => enc.result = "error")

\* C8 as stated: encoding a raster with fewer rows than the mode's `lines`
\* fails with an error, and no shorter transmission is produced.
C8_ShortRasterFails ==
    (/\ enc.key \in RegistryKeys
     /\ enc.entry # "none"
     /\ enc.img.height < SSTV_MODES[enc.key].lines)
    => /\ enc.result # "wav"
       /\ enc.y = 0
       /\ (EncoderReturned => enc.result = "error")

\* C9 as stated: in every scan the encoder emits, pixel k of N begins at
\* sample floor(k/N * totalSamples) of the scan, so that the scan occupies
\* exactly totalSamples = floor(scanDuration * sampleRate) samples.
C9_PixelBoundaries ==
    enc.key \in RegistryKeys =>
        \A c \in 1..Len(enc.line) :
            \A k \in 0..enc.line[c].N :
                enc.line[c].starts[k + 1]
                    = Boundary(k, enc.line[c].N, enc.line[c].total)

\* The VIS code the data-bit tones of an emitted VIS frame spell, LSB first
\* (tones 4..10 of the frame; 1100 Hz is a 1).
RECURSIVE SpelledFrom(_, _)
SpelledFrom(tones, i) ==
    IF i > 10 THEN 0
    ELSE (IF tones[i].f = Hz(FREQ_VIS_BIT1) THEN 1 ELSE 0) + 2 * SpelledFrom(tones, i + 1)

SpelledVisCode(tones) == SpelledFrom(tones, 4)

\* The encoder has emitted the VIS frame of a registry mode.
VisFrameEmitted == enc.key \in RegistryKeys /\ enc.pc \in {"image", "done"}

\* C10 as stated: the registry holds exactly four modes, with VIS codes
\* 0x08 (Robot 36), 0x2C (Martin M1), 0x3C (Scottie S1) and 0x5D (PD 120).
C10_RegistryAsStated ==
    /\ Cardinality(RegistryKeys) = 4
    /\ SSTV_MODES.ROBOT36.visCode = 8
    /\ SSTV_MODES.MARTIN1.visCode = 44
    /\ SSTV_MODES.SCOTTIE1.visCode = 60
    /\ SSTV_MODES.PD120.visCode = 93
    /\ (VisFrameEmitted /\ enc.key = "PD120" => SpelledVisCode(enc.vis) = 93)

----------------------------------------------------------------------------
(* Sample buffers and the frequency estimators *)

\* A sample buffer, kept as the tones it is made of: runs[k] is a tone of
\* frequency runs[k].f (in 1/255 Hz; 0 is silence) lasting runs[k].n samples,
\* and ends[k] is the index of the first sample after it.
Buffer(tones) ==
    [ runs |-> tones,
      ends |-> Running([k \in 1..Len(tones) |-> tones[k].n]),
      len  |-> TotalSamples(tones) ]

\* The index of the run that holds sample p, 0 <= p < buf.len.
RECURSIVE FindRun(_, _, _, _)
FindRun(ends, p, lo, hi) ==
    IF lo >= hi THEN lo
    ELSE LET mid == (lo + hi) \div 2
         IN  IF ends[mid] > p THEN FindRun(ends, p, lo, mid)
             ELSE FindRun(ends, p, mid + 1, hi)

RunAt(buf, p) == FindRun(buf.ends, p, 1, Len(buf.runs))

\* The number of samples of run k inside samples[a..b-1].
Overlap(buf, k, a, b) ==
    Max(0, Min(b, buf.ends[k]) - Max(a, buf.ends[k] - buf.runs[k].n))

\* goertzel(samples, startIdx, endIdx, f) ranks the test frequencies by the
\* energy the window holds near f.  A window made of pure tones holds, near
\* each tone, energy in proportion to the samples the tone lasts, so the
\* ranking is kept as the number of samples of each tone in the window: the
\* tone with the most samples has the greatest magnitude, and of two tones
\* with as many samples the lower one is met first by the scans, which replace
\* the maximum only by a strictly greater magnitude.  f = 0: the window holds
\* silence only and every magnitude is 0.
Goertzel(buf, startIdx, endIdx) ==
    With(<<RunAt(buf, startIdx), RunAt(buf, endIdx - 1)>>,
         LAMBDA k :
           IF k[1] = k[2]
           THEN [f |-> buf.runs[k[1]].f,
                 count |-> IF buf.runs[k[1]].f = 0 THEN 0 ELSE endIdx - startIdx]
           ELSE With({ [f |-> f,
                        count |-> SumRange([j \in 1..(k[2] - k[1] + 1) |->
                                     IF buf.runs[k[1] + j - 1].f = f
                                     THEN Overlap(buf, k[1] + j - 1, startIdx, endIdx)
                                     ELSE 0],
                                  1, k[2] - k[1] + 1)] :
                       f \in {buf.runs[j].f : j \in k[1]..k[2]} \ {0} },
                     LAMBDA tones :
                       IF tones = {} THEN [f |-> 0, count |-> 0]
                       ELSE CHOOSE t \in tones :
                              \A u \in tones :
                                  \/ t.count > u.count
                                  \/ (t.count = u.count /\ t.f <= u.f)))

\* The multiple of `grid` Hz nearest to a tone, within lo..hi Hz.
NearestOnGrid(f, grid, lo, hi) ==
    Max(lo, Min(hi, grid * RoundDiv(f, 255 * grid)))

\* detectFrequency(samples, startIdx, duration), numSamples being
\* Math.floor(duration * this.sampleRate).  A window of fewer than 10 samples
\* gives 0; a window that starts before the buffer reads undefined samples,
\* every magnitude is NaN and the initial 1500 is returned; the 10 Hz scan
\* around the best 100 Hz test frequency runs when the magnitude passes 0.05,
\* which a tone of full amplitude does when it fills a tenth of the window.
DetectFrequency(buf, startIdx, numSamples) ==
    LET endIdx == Min(startIdx + numSamples, buf.len)
    IN  IF endIdx - startIdx < 10 THEN 0
        ELSE IF startIdx < 0 THEN 1500
        ELSE With(Goertzel(buf, startIdx, endIdx),
                  LAMBDA g :
                    IF g.f = 0 THEN 1500
                    ELSE IF 10 * g.count > endIdx - startIdx
                    THEN NearestOnGrid(g.f, 10,
                                       NearestOnGrid(g.f, 100, 1100, 2300) - 100,
                                       NearestOnGrid(g.f, 100, 1100, 2300) + 100)
                    ELSE NearestOnGrid(g.f, 100, 1100, 2300))

\* detectFrequencyRange(samples, startIdx, duration): 25 Hz steps over
\* 1100..2500 Hz, then 1 Hz steps within 30 Hz of the best.
DetectFrequencyRange(buf, startIdx, numSamples) ==
    LET endIdx == Min(startIdx + numSamples, buf.len)
        Coarse(f) == NearestOnGrid(f, 25, FREQ_SYNC - 100, FREQ_WHITE + 200)
    IN  IF endIdx - startIdx < 10 THEN FREQ_BLACK
        ELSE IF startIdx < 0 THEN FREQ_BLACK
        ELSE With(Goertzel(buf, startIdx, endIdx),
                  LAMBDA g :
                    IF g.f = 0 THEN FREQ_BLACK
                    ELSE NearestOnGrid(g.f, 1, Max(FREQ_SYNC - 100, Coarse(g.f) - 30),
                                       Min(FREQ_WHITE + 200, Coarse(g.f) + 30)))

----------------------------------------------------------------------------
(* The decoder: class SSTVDecoder, mode detection *)

\* The least k in lo..hi with P(k), or -1: a loop that leaves at the first
\* index its test accepts.
RECURSIVE FirstSuch(_, _, _)
FirstSuch(P(_), lo, hi) ==
    IF lo > hi THEN -1
    ELSE IF lo = hi THEN (IF P(lo) THEN lo ELSE -1)
    ELSE With(FirstSuch(P, lo, (lo + hi) \div 2),
              LAMBDA l : IF l # -1 THEN l ELSE FirstSuch(P, ((lo + hi) \div 2) + 1, hi))

\* The value of a decoder field that was never assigned.
Undefined == -1

\* new SSTVDecoder(sampleRate, options): mode null, freqOffset 0, and the
\* fields detectMode assigns not yet assigned (an unassigned visFreqShift or
\* visEndPos is read through `|| 0` and `||`, as 0 is).
DecoderNew(autoCalibrate) ==
    [ mode |-> "none", freqOffset |-> 0, autoCalibrate |-> autoCalibrate,
      lastVisCode |-> Undefined, lastVisParityOk |-> FALSE,
      visFreqShift |-> 0, visEndPos |-> 0 ]

\* decodeVIS(samples, startIdx, freqShift): 7 data bits LSB first, a window
\* below 1200 Hz + freqShift being a 1, then the parity bit.
RECURSIVE VisBits(_, _, _, _)
VisBits(buf, idx, freqShift, bit) ==
    IF bit >= 7 THEN 0
    ELSE (IF DetectFrequency(buf, idx, FloorSamples(30000)) < 1200 + freqShift
          THEN 2 ^ bit ELSE 0)
         + VisBits(buf, idx + FloorSamples(30000), freqShift, bit + 1)

DecodeVIS(buf, startIdx, freqShift) ==
    With(VisBits(buf, startIdx, freqShift, 0),
         LAMBDA visCode :
           [ visCode |-> visCode,
             lastVisParityOk |->
               (Parity7(visCode)
                  = (IF DetectFrequency(buf, startIdx + 7 * FloorSamples(30000),
                                        FloorSamples(30000)) < 1200 + freqShift
                     THEN 1 ELSE 0)) ])

\* detectMode's scan backward for the start of the break, 5 ms at a time.
RECURSIVE BreakStart(_, _, _, _)
BreakStart(buf, i, breakStart, breakFreq) ==
    IF breakStart > 0 /\ i - breakStart < FloorSamples(300000)
    THEN LET prevPos == Max(0, breakStart - FloorSamples(5000))
         IN  IF Abs(DetectFrequency(buf, prevPos, FloorSamples(5000)) - breakFreq) > 80
             THEN breakStart
             ELSE BreakStart(buf, i, prevPos, breakFreq)
    ELSE breakStart

\* detectMode's scan forward for the end of the break.
RECURSIVE BreakEnd(_, _, _, _)
BreakEnd(buf, breakStart, breakEnd, breakFreq) ==
    IF /\ breakEnd < buf.len - FloorSamples(5000)
       /\ breakEnd - breakStart < FloorSamples(300000)
       /\ Abs(DetectFrequency(buf, breakEnd, FloorSamples(5000)) - breakFreq) <= 80
    THEN BreakEnd(buf, breakStart, breakEnd + FloorSamples(5000), breakFreq)
    ELSE breakEnd

\* detectMode's search for the porch within 60 ms of visEndPos, and the VIS
\* end it derives from it.
RefineVisEnd(buf, visEndPos, freqShift) ==
    LET searchStep   == FloorSamples(2000)
        searchWindow == FloorSamples(60000)
        first == Max(0, visEndPos - searchWindow)
        stop  == Min(buf.len, visEndPos + searchWindow)
        IsPorch(k) ==
            Abs(DetectFrequency(buf, first + k * searchStep, FloorSamples(3000))
                  - (FREQ_BLACK + freqShift)) < 100
    IN  With(FirstSuch(IsPorch, 0, FloorDiv(stop - 1 - first, searchStep)),
             LAMBDA k :
               IF k = -1 THEN visEndPos
               ELSE Max(visEndPos - searchWindow,
                        first + k * searchStep - FloorSamples(9000)))

\* The registry key whose visCode is `visCode`, or "none".
ModeOfVisCode(visCode) ==
    IF \E key \in RegistryKeys : SSTV_MODES[key].visCode = visCode
    THEN CHOOSE key \in RegistryKeys : SSTV_MODES[key].visCode = visCode
    ELSE "none"

\* What one pass of detectMode's loop body comes to when it leaves before
\* decodeVIS has run.
CandidateDropped ==
    [ outcome |-> "continue", visCode |-> Undefined, parityOk |-> FALSE,
      freqShift |-> 0, visEndPos |-> 0, mode |-> "none" ]

\* No candidate is left for its parity.
ParityRejects_Never(vis) == FALSE

\* `if (!this.lastVisParityOk) continue` after decodeVIS.
ParityRejects(vis) == ~vis.lastVisParityOk

\* The pass from the VIS data bits on: decodeVIS, the parity check, the
\* refined VIS end and the registry lookup.
VisDecoded(buf, dataBitPos, freqShift) ==
    With(DecodeVIS(buf, dataBitPos, freqShift),
         LAMBDA vis :
           IF ParityRejects(vis)
           THEN [CandidateDropped EXCEPT !.outcome = "parity",
                                         !.parityOk = vis.lastVisParityOk]
           ELSE With(ModeOfVisCode(vis.visCode),
                     LAMBDA mode :
                       [ outcome   |-> IF mode = "none" THEN "unknown" ELSE "mode",
                         visCode   |-> vis.visCode,
                         parityOk  |-> vis.lastVisParityOk,
                         freqShift |-> freqShift,
                         visEndPos |-> RefineVisEnd(buf, dataBitPos + 9 * FloorSamples(30000),
                                                    freqShift),
                         mode      |-> mode ]))

\* The pass from the end of the break on: the start bit is skipped if one
\* follows the break, and the first data bit must measure as a data bit.
AfterBreak(buf, breakEnd, freqShift) ==
    With(IF Abs(DetectFrequency(buf, breakEnd, FloorSamples(30000)) - (1900 + freqShift)) < 150
         THEN breakEnd + FloorSamples(30000) ELSE breakEnd,
         LAMBDA dataBitPos :
           With(DetectFrequency(buf, dataBitPos, FloorSamples(30000)),
                LAMBDA firstBitFreq :
                  IF Abs(firstBitFreq - (1900 + freqShift)) < 150 THEN CandidateDropped
                  ELSE IF firstBitFreq < 1000 + freqShift \/ firstBitFreq > 1500 + freqShift
                  THEN CandidateDropped
                  ELSE VisDecoded(buf, dataBitPos, freqShift)))

\* The body of detectMode's loop at a position i whose 10 ms window measures
\* within 150 Hz of 1200 Hz.  outcome "continue": the loop goes on, before
\* decodeVIS ran; "parity": decodeVIS ran and the parity check failed;
\* "unknown": the parity check passed and no mode has the code; "mode": the
\* mode with the code is returned.
VisCandidate(buf, i) ==
    With(DetectFrequency(buf, i, FloorSamples(10000)),
         LAMBDA breakFreq :
           IF i < FloorSamples(250000) THEN CandidateDropped
           ELSE IF \/ Abs(DetectFrequency(buf, Max(0, i - FloorSamples(200000)),
                                          FloorSamples(20000))
                            - (1900 + (breakFreq - 1200))) > 200
                   \/ Abs(DetectFrequency(buf, Max(0, i - FloorSamples(100000)),
                                          FloorSamples(20000))
                            - (1900 + (breakFreq - 1200))) > 200
           THEN CandidateDropped
           ELSE With(BreakStart(buf, i, i, breakFreq),
                     LAMBDA breakStart :
                       With(BreakEnd(buf, breakStart, breakStart, breakFreq),
                            LAMBDA breakEnd :
                              IF breakEnd - breakStart < FloorSamples(5000)
                              THEN CandidateDropped
                              ELSE AfterBreak(buf, breakEnd, breakFreq - 1200))))

\* The next position at or after i, in steps of 0.5 ms below searchLimit -
\* 1000, whose 10 ms window measures within 150 Hz of 1200 Hz; -1 if none.
NextCandidate(buf, i) ==
    LET step == FloorSamples(500)
        searchLimit == Min(buf.len, SampleRate * 60)
        IsCandidate(k) ==
            Abs(DetectFrequency(buf, i + k * step, FloorSamples(10000)) - 1200) < 150
    IN  With(FirstSuch(IsCandidate, 0, FloorDiv(searchLimit - 1000 - 1 - i, step)),
             LAMBDA k : IF k = -1 THEN -1 ELSE i + k * step)

----------------------------------------------------------------------------
(* Decoder input: sample buffers *)

\* A mode descriptor with its frame cut down to 2 * MaxHalfWidth columns and
\* 2 * MaxLinePairs lines; every duration is kept.
Frame(key) ==
    [SSTV_MODES[key] EXCEPT !.width = 2 * MaxHalfWidth, !.lines = 2 * MaxLinePairs]

\* The tones addImageData emits for lines y, y + 1, ... of a raster.
RECURSIVE ImageTones(_, _, _)
ImageTones(mode, img, y) ==
    IF y >= img.height THEN << >>
    ELSE LineTones(mode, LineScans(mode, img, y), y)
         \o ImageTones(mode, img, IF mode.colorFormat = "PD" THEN y + 2 ELSE y + 1)

\* What generateAudio emits for a raster of `lines` rows, the VIS frame
\* carrying `visCode`.
Transmission(key, visCode, pattern, lines) ==
    VISTones(visCode)
    \o ImageTones(Frame(key),
                  [pattern |-> pattern, width |-> Frame(key).width, height |-> lines], 0)

\* The first n samples of a sequence of tones.
RECURSIVE TruncateFrom(_, _, _)
TruncateFrom(tones, k, n) ==
    IF k > Len(tones) \/ n <= 0 THEN << >>
    ELSE IF tones[k].n >= n THEN << Tone(tones[k].f, n) >>
    ELSE << tones[k] >> \o TruncateFrom(tones, k + 1, n - tones[k].n)

Truncate(tones, n) == TruncateFrom(tones, 1, n)

\* A 7-bit code no mode is registered under.
UnknownVisCode == 40

\* The recordings handed to the decoder.
Recordings ==
    [ key \in RegistryKeys |->
        Buffer(Transmission(key, SSTV_MODES[key].visCode, "quadrants", Frame(key).lines)) ]

\* One and a half lines (line pairs for PD) of image after the VIS frame.
CutRecordings ==
    [ key \in RegistryKeys |->
        Buffer(Truncate(Recordings[key].runs,
                        TotalSamples(VISTones(0))
                          + (3 * (Recordings[key].len - TotalSamples(VISTones(0))))
                              \div (IF key = "PD120" THEN 2 * MaxLinePairs
                                    ELSE 4 * MaxLinePairs))) ]

\* A VIS frame whose parity bit is the wrong one.
BadParityVIS(visCode) ==
    [VISTones(visCode) EXCEPT ![11] = Tone(VisBitFreq(1 - Parity7(visCode)),
                                           FloorSamples(30000))]

\* Martin M1 lines behind a VIS frame of bad parity, and behind one of bad
\* parity followed by the frame sent again with the right parity.
ParityRecordings ==
    [ bad     |-> Buffer(BadParityVIS(SSTV_MODES.MARTIN1.visCode)
                         \o ImageTones(Frame("MARTIN1"),
                                       [pattern |-> "quadrants",
                                        width |-> Frame("MARTIN1").width,
                                        height |-> Frame("MARTIN1").lines], 0)),
      resent  |-> Buffer(BadParityVIS(SSTV_MODES.MARTIN1.visCode)
                         \o Transmission("MARTIN1", SSTV_MODES.MARTIN1.visCode,
                                         "quadrants", Frame("MARTIN1").lines)) ]

\* Silence; a bare 1900 Hz tone; a VIS frame with an unregistered code and
\* silence after it; a leader followed by Robot 36 lines with no VIS frame;
\* a lone sync pulse 0.8 s into silence; a lone sync pulse at the start.
OtherRecordings ==
    [ silence |-> Buffer(<< Tone(0, 60000) >>),
      tone    |-> Buffer(<< Tone(Hz(1900), 48000) >>),
      unknown |-> Buffer(VISTones(UnknownVisCode) \o << Tone(0, 30000) >>),
      novis   |-> Buffer(<< Tone(Hz(1900), FloorSamples(300000)) >>
                         \o ImageTones(Frame("ROBOT36"),
                                       [pattern |-> "quadrants",
                                        width |-> Frame("ROBOT36").width,
                                        height |-> 8], 0)),
      late    |-> Buffer(<< Tone(0, FloorSamples(800000)), Tone(Hz(FREQ_SYNC), 960),
                            Tone(0, 4800) >>),
      early   |-> Buffer(<< Tone(Hz(FREQ_SYNC), 960), Tone(0, 9600) >>) ]

\* The lines of a Martin M1 raster, each followed by 1000 samples (20.8 ms) of
\* black: a transmitter whose lines come 5% late.
RECURSIVE LateLines(_, _)
LateLines(img, y) ==
    IF y >= img.height THEN << >>
    ELSE LineTones(Frame("MARTIN1"), LineScans(Frame("MARTIN1"), img, y), y)
         \o << Tone(Hz(FREQ_BLACK), 1000) >>
         \o LateLines(img, y + 1)

DriftRecordings ==
    [ late |-> Buffer(VISTones(SSTV_MODES.MARTIN1.visCode)
                      \o LateLines([pattern |-> "quadrants",
                                    width |-> Frame("MARTIN1").width,
                                    height |-> Frame("MARTIN1").lines], 0)) ]

SampleBuffers ==
    {Recordings[key] : key \in RegistryKeys}
      \cup {CutRecordings[key] : key \in RegistryKeys}
      \cup {OtherRecordings[name] : name \in DOMAIN OtherRecordings}
      \cup {ParityRecordings[name] : name \in DOMAIN ParityRecordings}
      \cup {DriftRecordings[name] : name \in DOMAIN DriftRecordings}

----------------------------------------------------------------------------
(* Mode detection by timing *)

\* detectModeByTiming's scan for a sustained 1900 Hz leader in 50 ms chunks:
\* the end of the leader, or -1.
RECURSIVE LeaderEnd(_, _, _, _)
LeaderEnd(buf, i, runCount, leaderEnd) ==
    LET chunkSamples == FloorSamples(50000)
    IN  IF i >= Min(buf.len, SampleRate * 60) THEN leaderEnd
        ELSE IF Abs(DetectFrequency(buf, i, chunkSamples) - 1900) < 150
        THEN LeaderEnd(buf, i + chunkSamples, runCount + 1,
                       IF runCount + 1 >= 4 THEN i + chunkSamples ELSE leaderEnd)
        ELSE IF runCount >= 4 /\ leaderEnd > 0 THEN leaderEnd
        ELSE LeaderEnd(buf, i + chunkSamples, 0, leaderEnd)

\* The first position from `from`, in 2 ms steps below maxSearch, whose 5 ms
\* window measures within 100 Hz of 1200 Hz; -1 if none.
NextTimingSync(buf, from, searchStart, maxSearch) ==
    LET step == FloorSamples(2000)
        IsSync(k) ==
            Abs(DetectFrequency(buf, searchStart + k * step, FloorSamples(5000)) - 1200) < 100
    IN  With(FirstSuch(IsSync, (from - searchStart + step - 1) \div step,
                       FloorDiv(maxSearch - 1 - searchStart, step)),
             LAMBDA k : IF k = -1 THEN -1 ELSE searchStart + k * step)

\* The period a mode's syncs are expected at, in microseconds.
ExpectedPeriod(mode) ==
    IF mode.colorFormat = "PD"
    THEN mode.componentTime * 4 + mode.syncPulse + mode.syncPorch
    ELSE mode.scanTime

\* Math.abs(period - expected) / expected < 0.1, for `intervals` sync periods
\* spanning `span` samples.
PeriodMatches(span, intervals, mode) ==
    LET expected == ExpectedPeriod(mode) * (SampleRate \div 1000) * intervals
    IN  10 * Abs(span * 1000 - expected) < expected

\* The syncs detectModeByTiming collects from searchStart: up to three, each
\* more than 50 ms after the one before.
TimingSyncs(buf, searchStart) ==
    LET maxSearch == Min(buf.len, searchStart + 3 * SampleRate)
        gap == FloorSamples(50000) + 1
    IN  With(NextTimingSync(buf, searchStart, searchStart, maxSearch),
             LAMBDA s1 :
               IF s1 = -1 THEN << >>
               ELSE With(NextTimingSync(buf, s1 + gap, searchStart, maxSearch),
                         LAMBDA s2 :
                           IF s2 = -1 THEN << s1 >>
                           ELSE With(NextTimingSync(buf, s2 + gap, searchStart, maxSearch),
                                     LAMBDA s3 :
                                       IF s3 = -1 THEN << s1, s2 >>
                                       ELSE << s1, s2, s3 >>)))

\* The first mode of the registry whose expected period is within 10% of
\* the measured one, or "none".
ModeOfPeriod(syncs) ==
    With({k \in 1..Len(ModeKeys) :
            PeriodMatches(syncs[Len(syncs)] - syncs[1], Len(syncs) - 1,
                          SSTV_MODES[ModeKeys[k]])},
         LAMBDA matching :
           IF matching = {} THEN "none"
           ELSE ModeKeys[CHOOSE k \in matching : \A j \in matching : k <= j])

\* detectModeByTiming(samples): the mode and the first sync, mode "none" for
\* null.
DetectModeByTiming(buf) ==
    With(LeaderEnd(buf, 0, 0, -1),
         LAMBDA leaderEnd :
           IF leaderEnd = -1 THEN [mode |-> "none", visEndPos |-> 0]
           ELSE With(TimingSyncs(buf, leaderEnd + FloorSamples(500000)),
                     LAMBDA syncs :
                       IF Len(syncs) < 2 THEN [mode |-> "none", visEndPos |-> 0]
                       ELSE With(ModeOfPeriod(syncs),
                                 LAMBDA mode :
                                   IF mode = "none" THEN [mode |-> "none", visEndPos |-> 0]
                                   ELSE [mode |-> mode, visEndPos |-> syncs[1]])))

----------------------------------------------------------------------------
(* The decoder: sync search and frequency calibration *)

\* Math.max(0.004, this.mode?.syncPulse || 0.005), in microseconds.
SyncDuration(mode) == Max(4000, IF mode.syncPulse = 0 THEN 5000 ELSE mode.syncPulse)

\* Math.floor((syncDuration * this.sampleRate * j) / 3) for j = 0..3; with
\* j = 1 also Math.floor((syncDuration / 3) * this.sampleRate).
SyncThird(us, j) ==
    LET exact == (us * (SampleRate \div 1000) * j) \div 3000
    IN  IF us \in IeeeShort /\ j > 0 THEN exact - 1 ELSE exact

\* findSyncPulse's test at position i: the window of one sync duration
\* measures within 200 Hz of the expected sync, and none of its thirds is
\* more than 200 Hz away.
SyncAt(buf, mode, visFreqShift, i) ==
    LET us == SyncDuration(mode)
        expectedSync == FREQ_SYNC + visFreqShift
    IN  /\ Abs(DetectFrequency(buf, i, FloorSamples(us)) - expectedSync) < 200
        /\ \A j \in 0..2 :
             Abs(DetectFrequency(buf, i + SyncThird(us, j), SyncThird(us, 1))
                   - expectedSync) <= 200

\* findSyncPulse(samples, startPos, endPos): the first position from
\* startPos, in steps of 0.2 ms, that holds a sync pulse; -1 if none.
FindSyncPulse(buf, mode, visFreqShift, startPos, endPos) ==
    LET samplesPerCheck == FloorSamples(200)
        searchEnd == Min(endPos, buf.len - FloorSamples(SyncDuration(mode)))
        IsSync(k) == SyncAt(buf, mode, visFreqShift, startPos + k * samplesPerCheck)
    IN  With(FirstSuch(IsSync, 0, FloorDiv(searchEnd - 1 - startPos, samplesPerCheck)),
             LAMBDA k : IF k = -1 THEN -1 ELSE startPos + k * samplesPerCheck)

\* One call findSyncPulse(samples, startPos, endPos) and what it returned.
SyncAttempt(buf, mode, visFreqShift, startPos, endPos) ==
    [ startPos |-> startPos, endPos |-> endPos,
      result |-> FindSyncPulse(buf, mode, visFreqShift, startPos, endPos) ]

\* The whole buffer searched first, from sample 0.
FirstSyncAttempts_FromZero(buf, mode, d) ==
    << SyncAttempt(buf, mode, d.visFreqShift, 0, buf.len) >>

\* The searches decodeImage makes for the first sync pulse, in the order
\* made: one line forward of the VIS end, then, if that returned -1, three
\* lines forward, then, if that returned -1 too, the whole buffer.
FirstSyncAttempts(buf, mode, d) ==
    LET visEnd == IF d.visEndPos # 0 THEN d.visEndPos ELSE FloorSamples(610000)
        lineSamplesInit == FloorSamples(IF mode.scanTime = 0 THEN 150000 ELSE mode.scanTime)
    IN  With(SyncAttempt(buf, mode, d.visFreqShift, visEnd, visEnd + lineSamplesInit),
             LAMBDA a1 :
               IF a1.result # -1 THEN << a1 >>
               ELSE With(SyncAttempt(buf, mode, d.visFreqShift, visEnd,
                                     visEnd + lineSamplesInit * 3),
                         LAMBDA a2 :
                           IF a2.result # -1 THEN << a1, a2 >>
                           ELSE << a1, a2,
                                   SyncAttempt(buf, mode, d.visFreqShift, 0, buf.len) >>))

\* `position` after the searches: what the last one returned.
FirstSync(buf, mode, d) ==
    With(FirstSyncAttempts(buf, mode, d), LAMBDA attempts : attempts[Len(attempts)].result)

\* The offsets estimateFreqOffset collects from up to 20 sync pulses, one
\* Robot 36 line apart.
RECURSIVE SyncOffsets(_, _, _, _, _)
SyncOffsets(buf, mode, visFreqShift, pos, line) ==
    LET lineSamples == FloorSamples(mode.syncPulse + mode.syncPorch + 138000)
        tolerance   == lineSamples \div 20
    IN  IF line >= 20 THEN << >>
        ELSE With(FindSyncPulse(buf, mode, visFreqShift, pos - tolerance, pos + tolerance),
                  LAMBDA syncPos :
                    IF syncPos = -1 THEN << >>
                    ELSE << DetectFrequency(buf, syncPos, FloorSamples(mode.syncPulse))
                              - FREQ_SYNC >>
                         \o SyncOffsets(buf, mode, visFreqShift, syncPos + lineSamples,
                                        line + 1))

\* estimateFreqOffset(samples, firstSyncPos): the median offset when at least
\* 5 were collected and it is more than 50 Hz, else 0.
EstimateFreqOffset(buf, mode, visFreqShift, firstSyncPos) ==
    With(SyncOffsets(buf, mode, visFreqShift, firstSyncPos, 0),
         LAMBDA offsets :
           IF Len(offsets) < 5 THEN 0
           ELSE With(SortSeq(offsets, LAMBDA a, b : a < b)[Len(offsets) \div 2 + 1],
                     LAMBDA medianOffset :
                       IF Abs(medianOffset) > 50 THEN medianOffset ELSE 0))

----------------------------------------------------------------------------
(* The decoder: scan lines *)

\* Math.max(0, Math.min(255, Math.round(((freq - freqBlack) / (freqWhite -
\* freqBlack)) * 255))), freqWhite - freqBlack being FREQ_WHITE - FREQ_BLACK.
ValueOf(freq, freqBlack) ==
    Clamp255(RoundDiv((freq - freqBlack) * 255, FREQ_WHITE - FREQ_BLACK))

\* The window a scan of N pixels over totalSamples reads for pixel x: it
\* starts at the pixel's boundary, lasts the pixel or minWindowSamples if
\* that is more, and stops at the end of the scan.
ScanWindow(startPos, totalSamples, N, x, minWindowSamples) ==
    LET startSample == Boundary(x, N, totalSamples)
        endSample   == Boundary(x + 1, N, totalSamples)
        pos         == startPos + startSample
        windowEnd   == Min(startPos + totalSamples,
                           pos + Max(endSample - startSample, minWindowSamples))
    IN  [ pos |-> pos, pixel |-> endSample - startSample,
          n |-> RoundTripSamples(windowEnd - pos) ]

\* A frame left as new Uint8ClampedArray gives it: all zero.
BlankFrame_NoAlpha(mode) == [i \in 1..(mode.width * mode.lines) |-> <<0, 0, 0, 0>>]

\* The frame decodeImage starts from: black, alpha 255.
BlankFrame(mode) == [i \in 1..(mode.width * mode.lines) |-> <<0, 0, 0, 255>>]

\* new Array(width * lines).fill(128) for YUV and PD, null otherwise.
BlankChroma(mode) ==
    IF mode.colorFormat \in {"YUV", "PD"}
    THEN [i \in 1..(mode.width * mode.lines) |-> 128]
    ELSE << >>

\* decodeScanLine(samples, startPos, imageData, y, channel): the frame after
\* the scan of one RGB channel; the loop leaves at the first pixel that starts
\* past the buffer.
DecodeScanLine(buf, mode, data, startPos, y, channel) ==
    LET totalSamples == FloorSamples(mode.scanTime)
    IN  [i \in 1..Len(data) |->
            LET x == (i - 1) % mode.width
                w == ScanWindow(startPos, totalSamples, mode.width, x, 0)
            IN  IF (i - 1) \div mode.width # y \/ w.pos >= buf.len THEN data[i]
                ELSE [data[i] EXCEPT
                        ![channel + 1] =
                            ValueOf(DetectFrequencyRange(buf, w.pos, w.n), FREQ_BLACK),
                        ![4] = 255]]

\* decodeScanLineYUV(samples, startPos, imageData, y): the frame after the Y
\* scan of line y.
DecodeScanLineYUV(buf, mode, freqOffset, data, startPos, y) ==
    LET totalSamples == FloorSamples(88000)
        minWindowSamples == Max(96, (totalSamples \div mode.width) * 4)
    IN  [i \in 1..Len(data) |->
            LET x == (i - 1) % mode.width
                w == ScanWindow(startPos, totalSamples, mode.width, x, minWindowSamples)
                value == ValueOf(DetectFrequencyRange(buf, w.pos, w.n),
                                 FREQ_BLACK + freqOffset)
            IN  IF (i - 1) \div mode.width # y \/ w.pos >= buf.len THEN data[i]
                ELSE <<value, value, value, 255>>]

\* The frequencies decodeScanLineChroma measures for its halfWidth pixels; a
\* pixel that ends past the buffer repeats the one before it, or 1900.
RECURSIVE ChromaFrequencies(_, _, _, _, _)
ChromaFrequencies(buf, halfWidth, startPos, x, previous) ==
    IF x >= halfWidth THEN << >>
    ELSE LET totalSamples == FloorSamples(44000)
             minWindowSamples == Max(96, (totalSamples \div halfWidth) * 4)
             w == ScanWindow(startPos, totalSamples, halfWidth, x, minWindowSamples)
         IN  With(IF w.pos + w.pixel >= buf.len
                  THEN (IF previous = 0 THEN 1900 ELSE previous)
                  ELSE DetectFrequencyRange(buf, w.pos, w.n),
                  LAMBDA freq :
                    << freq >> \o ChromaFrequencies(buf, halfWidth, startPos, x + 1, freq))

\* The median of five neighbours for the pixels that have two on each side.
SmoothedChroma(frequencies, x) ==
    IF x >= 2 /\ x < Len(frequencies) - 2
    THEN SortSeq([j \in 1..5 |-> frequencies[x - 2 + j]], LAMBDA a, b : a < b)[3]
    ELSE frequencies[x + 1]

\* The chroma scan with each value written at column 2x only.
DecodeScanLineChroma_OneColumn(buf, mode, freqOffset, plane, startPos, y) ==
    With(ChromaFrequencies(buf, mode.width \div 2, startPos, 0, 0),
         LAMBDA frequencies :
           [i \in 1..Len(plane) |->
               LET x == ((i - 1) % mode.width) \div 2
               IN  IF (i - 1) \div mode.width # y \/ (i - 1) % 2 = 1 THEN plane[i]
                   ELSE ValueOf(SmoothedChroma(frequencies, x), FREQ_BLACK + freqOffset)])

\* decodeScanLineChroma(samples, startPos, chromaU, chromaV, y, type): the
\* plane of the line's chroma type after the scan, each value written to two
\* adjacent columns.
DecodeScanLineChroma(buf, mode, freqOffset, plane, startPos, y) ==
    With(ChromaFrequencies(buf, mode.width \div 2, startPos, 0, 0),
         LAMBDA frequencies :
           [i \in 1..Len(plane) |->
               LET x == ((i - 1) % mode.width) \div 2
               IN  IF (i - 1) \div mode.width # y \/ x >= mode.width \div 2 THEN plane[i]
                   ELSE ValueOf(SmoothedChroma(frequencies, x), FREQ_BLACK + freqOffset)])

\* decodeScanLinePD's decodeComponent(baseOffset): the values of one
\* component of a line pair.
DecodeComponent(buf, mode, startPos, baseOffset) ==
    LET totalSamples == FloorSamples(mode.componentTime)
        minWindowSamples == Max(96, (totalSamples \div mode.width) * 4)
    IN  [c \in 1..mode.width |->
            LET w == ScanWindow(startPos + baseOffset, totalSamples, mode.width,
                                c - 1, minWindowSamples)
            IN  ValueOf(DetectFrequencyRange(buf, w.pos, w.n), FREQ_BLACK)]

\* The line pair with R-Y and B-Y stored in row y only.
DecodeScanLinePD_ChromaOnce(buf, mode, data, chromaU, chromaV, startPos, y) ==
    LET totalSamples == FloorSamples(mode.componentTime)
        y1 == Min(y + 1, mode.lines - 1)
        Row(i) == (i - 1) \div mode.width
        Col(i) == ((i - 1) % mode.width) + 1
    IN  With([c \in 0..3 |-> DecodeComponent(buf, mode, startPos, totalSamples * c)],
             LAMBDA values :
               [ data |->
                   [i \in 1..Len(data) |->
                       IF Row(i) = y1
                       THEN <<values[3][Col(i)], values[3][Col(i)], values[3][Col(i)], 255>>
                       ELSE IF Row(i) = y
                       THEN <<values[0][Col(i)], values[0][Col(i)], values[0][Col(i)], 255>>
                       ELSE data[i]],
                 chromaV |->
                   [i \in 1..Len(chromaV) |->
                       IF Row(i) = y THEN values[1][Col(i)] ELSE chromaV[i]],
                 chromaU |->
                   [i \in 1..Len(chromaU) |->
                       IF Row(i) = y THEN values[2][Col(i)] ELSE chromaU[i]] ])

\* decodeScanLinePD(samples, startPos, imageData, chromaU, chromaV, y): the
\* frame and the planes after the four components of the pair (y, y1), in
\* the order Y0, R-Y, B-Y, Y1.
DecodeScanLinePD(buf, mode, data, chromaU, chromaV, startPos, y) ==
    LET totalSamples == FloorSamples(mode.componentTime)
        y1 == Min(y + 1, mode.lines - 1)
        Row(i) == (i - 1) \div mode.width
        Col(i) == ((i - 1) % mode.width) + 1
    IN  With([c \in 0..3 |-> DecodeComponent(buf, mode, startPos, totalSamples * c)],
             LAMBDA values :
               [ data |->
                   [i \in 1..Len(data) |->
                       IF Row(i) = y1
                       THEN <<values[3][Col(i)], values[3][Col(i)], values[3][Col(i)], 255>>
                       ELSE IF Row(i) = y
                       THEN <<values[0][Col(i)], values[0][Col(i)], values[0][Col(i)], 255>>
                       ELSE data[i]],
                 chromaV |->
                   [i \in 1..Len(chromaV) |->
                       IF Row(i) \in {y, y1} THEN values[1][Col(i)] ELSE chromaV[i]],
                 chromaU |->
                   [i \in 1..Len(chromaU) |->
                       IF Row(i) \in {y, y1} THEN values[2][Col(i)] ELSE chromaU[i]] ])

----------------------------------------------------------------------------
(* The decoder: colour conversion and image quality *)

\* chroma[i] || 128
ChromaOr128(plane, i) == IF plane[i] = 0 THEN 128 ELSE plane[i]

\* convertYUVtoRGB(imageData, chromaU, chromaV): both lines of a pair take V
\* from the even line and U from the odd line.  (At U = 78, V = 178 the green
\* sum is an exact half, which double arithmetic may round either way.)
ConvertYUVtoRGB(mode, data, chromaU, chromaV) ==
    [i \in 1..Len(data) |->
        LET ly       == (i - 1) \div mode.width
            x        == (i - 1) % mode.width
            evenLine == ly - (ly % 2)
            oddLine  == Min(evenLine + 1, mode.lines - 1)
            V == ChromaOr128(chromaV, evenLine * mode.width + x + 1) - 128
            U == ChromaOr128(chromaU, oddLine * mode.width + x + 1) - 128
            Y == data[i][1]
        IN  << Clamp255(RoundDiv(1000 * Y + 1402 * V, 1000)),
               Clamp255(RoundDiv(1000000 * Y - 344136 * U - 714136 * V, 1000000)),
               Clamp255(RoundDiv(1000 * Y + 1772 * U, 1000)),
               data[i][4] >>]

\* convertPDtoRGB(imageData, chromaU, chromaV).
ConvertPDtoRGB(mode, data, chromaU, chromaV) ==
    [i \in 1..Len(data) |->
        LET Y     == data[i][1]
            RYadj == ChromaOr128(chromaV, i) - 128
            BYadj == ChromaOr128(chromaU, i) - 128
        IN  << Clamp255(Y + RYadj),
               Clamp255(RoundDiv(1000 * Y - 194 * BYadj - 509 * RYadj, 1000)),
               Clamp255(Y + BYadj),
               data[i][4] >>]

\* The rows of analyzeImageQuality's table with the colour imbalance tested
\* before the green tint.
Verdict_ImbalanceFirst(rSum, gSum, bSum, pixels) ==
    LET brightness3     == rSum + gSum + bSum
        greenDominance2 == 2 * gSum - rSum - bSum
        colorImbalance  == Max(rSum, Max(gSum, bSum)) - Min(rSum, Min(gSum, bSum))
    IN  IF brightness3 < 30 * pixels
        THEN [ verdict |-> "bad", warnings |-> << "Image is almost entirely black" >> ]
        ELSE IF colorImbalance > 120 * pixels
        THEN [ verdict |-> "warn", warnings |-> << "High color imbalance" >> ]
        ELSE IF greenDominance2 > 80 * pixels
        THEN [ verdict |-> "bad", warnings |-> << "Heavy green tint" >> ]
        ELSE IF colorImbalance > 80 * pixels /\ brightness3 < 120 * pixels
        THEN [ verdict |-> "warn", warnings |-> << "Unusual color balance" >> ]
        ELSE [ verdict |-> "good", warnings |-> << >> ]

\* The verdict and the warnings analyzeImageQuality derives from the sums of
\* the red, green and blue bytes of a frame of `pixels` pixels (the averages
\* are compared as sums).
Verdict(rSum, gSum, bSum, pixels) ==
    LET brightness3     == rSum + gSum + bSum
        greenDominance2 == 2 * gSum - rSum - bSum
        colorImbalance  == Max(rSum, Max(gSum, bSum)) - Min(rSum, Min(gSum, bSum))
    IN  IF brightness3 < 30 * pixels
        THEN [ verdict |-> "bad", warnings |-> << "Image is almost entirely black" >> ]
        ELSE IF greenDominance2 > 80 * pixels
        THEN [ verdict |-> "bad", warnings |-> << "Heavy green tint" >> ]
        ELSE IF colorImbalance > 80 * pixels /\ brightness3 < 120 * pixels
        THEN [ verdict |-> "warn", warnings |-> << "Unusual color balance" >> ]
        ELSE IF colorImbalance > 120 * pixels
        THEN [ verdict |-> "warn", warnings |-> << "High color imbalance" >> ]
        ELSE [ verdict |-> "good", warnings |-> << >> ]

\* analyzeImageQuality(ctx, width, height).
AnalyzeImageQuality(data) ==
    With([c \in 1..3 |-> SumRange([i \in 1..Len(data) |-> data[i][c]], 1, Len(data))],
         LAMBDA sum :
           With(Verdict(sum[1], sum[2], sum[3], Len(data)),
                LAMBDA v :
                  [ rAvg |-> RoundDiv(sum[1], Len(data)),
                    gAvg |-> RoundDiv(sum[2], Len(data)),
                    bAvg |-> RoundDiv(sum[3], Len(data)),
                    brightness |-> RoundDiv(sum[1] + sum[2] + sum[3], 3 * Len(data)),
                    verdict |-> v.verdict,
                    warnings |-> v.warnings ]))

\* The message decodeImage throws when no first sync pulse is found.
NoSyncMessage == "Could not find sync pulse. Make sure this is a valid SSTV transmission."

\* What an invocation has returned or thrown: nothing yet, an error, or the
\* frame with its diagnostics.
NoResult == [kind |-> "none"]

ErrorResult(message) == [kind |-> "error", message |-> message]

FrameResult(mode, d, data) ==
    [ kind |-> "frame", mode |-> mode.name, width |-> mode.width, lines |-> mode.lines,
      data |-> data, visCode |-> d.lastVisCode, freqOffset |-> d.freqOffset,
      visEndPos |-> d.visEndPos, quality |-> AnalyzeImageQuality(data) ]

----------------------------------------------------------------------------
(* The decoder as a state machine: decodeAudio on one sample buffer *)

\* An invocation of decodeAudio at its start.  `detected` records the return
\* detectMode left by ("vis", "timing" or "default"); `overflow` that the
\* cursor was at or past the end of the buffer with lines left to decode;
\* `log` holds the buffer and the result of each earlier invocation on the
\* same decoder; `rejected` lists the positions whose candidate detectMode
\* left because its parity check failed.
RunStart(log) ==
    [ pc |-> "detect", i |-> 0, detected |-> "none", position |-> 0, y |-> 0,
      data |-> << >>, chromaU |-> << >>, chromaV |-> << >>, overflow |-> FALSE,
      result |-> NoResult, log |-> log, attempts |-> << >>, rejected |-> << >> ]

\* One pass of detectMode's loop body, at the next position whose 10 ms
\* window measures near 1200 Hz: the candidate is dropped, or decodeVIS runs
\* and the loop goes on or returns the mode, which decodeAudio stores.
DetectCandidate ==
    /\ run.pc = "detect"
    /\ \E i \in {NextCandidate(samples, run.i)} :
         /\ i # -1
         /\ \E v \in {VisCandidate(samples, i)} :
              /\ dec' = CASE v.outcome = "continue" -> dec
                          [] v.outcome = "parity" -> [dec EXCEPT !.lastVisParityOk = v.parityOk]
                          [] v.outcome = "unknown" ->
                               [dec EXCEPT !.lastVisParityOk = v.parityOk,
                                           !.lastVisCode = v.visCode,
                                           !.visFreqShift = v.freqShift]
                          [] OTHER ->
                               [dec EXCEPT !.lastVisParityOk = v.parityOk,
                                           !.lastVisCode = v.visCode,
                                           !.visFreqShift = v.freqShift,
                                           !.visEndPos = v.visEndPos,
                                           !.mode = v.mode]
              /\ run' = IF v.outcome = "mode"
                        THEN [run EXCEPT !.pc = "decode", !.i = i, !.detected = "vis"]
                        ELSE [run EXCEPT !.i = i + FloorSamples(500),
                                         !.rejected = IF v.outcome = "parity"
                                                      THEN Append(@, i) ELSE @]
    /\ UNCHANGED <<enc, samples, panel>>

\* The loop found no mode: detectModeByTiming, and if it finds none either,
\* visFreqShift = 0 and Robot 36.
DetectFallback ==
    /\ run.pc = "detect"
    /\ NextCandidate(samples, run.i) = -1
    /\ \E t \in {DetectModeByTiming(samples)} :
         /\ dec' = IF t.mode # "none"
                   THEN [dec EXCEPT !.mode = t.mode, !.visEndPos = t.visEndPos,
                                    !.visFreqShift = 0]
                   ELSE [dec EXCEPT !.mode = "ROBOT36", !.visFreqShift = 0]
         /\ run' = [run EXCEPT !.pc = "decode",
                               !.detected = IF t.mode # "none" THEN "timing" ELSE "default"]
    /\ UNCHANGED <<enc, samples, panel>>

\* this.freqOffset after decodeImage's calibration: with autoCalibrate, the
\* offset estimateFreqOffset refines, or the VIS frequency shift.
Calibrated(buf, mode, d, position) ==
    IF d.autoCalibrate
    THEN With(EstimateFreqOffset(buf, mode, d.visFreqShift, position),
              LAMBDA refined : IF refined # 0 THEN refined ELSE d.visFreqShift)
    ELSE d.freqOffset

\* decodeImage going on whatever the first sync pulse search returned.
SyncFound_Always(position) == TRUE

\* decodeImage's test of the first sync pulse search: -1 makes it throw.
SyncFound(position) == position # -1

\* decodeImage up to its line loop: the blank frame, the search for the first
\* sync pulse, which throws when every attempt fails, and the calibration of
\* freqOffset.
DecodeStart ==
    /\ run.pc = "decode"
    /\ \E attempts \in {FirstSyncAttempts(samples, Frame(dec.mode), dec)} :
       \E position \in {attempts[Len(attempts)].result} :
         IF ~SyncFound(position)
         THEN /\ run' = [run EXCEPT !.pc = "error", !.attempts = attempts,
                                    !.result = ErrorResult(NoSyncMessage)]
              /\ dec' = dec
         ELSE /\ run' = [run EXCEPT !.pc = "lines", !.position = position, !.y = 0,
                                    !.attempts = attempts,
                                    !.data = BlankFrame(Frame(dec.mode)),
                                    !.chromaU = BlankChroma(Frame(dec.mode)),
                                    !.chromaV = BlankChroma(Frame(dec.mode))]
              /\ dec' = [dec EXCEPT !.freqOffset =
                                      Calibrated(samples, Frame(dec.mode), dec, position)]
    /\ UNCHANGED <<enc, samples, panel>>

\* (variant) the search for the next sync reaches back over the whole line
\* just decoded.
Resync_WholeLine(buf, mode, d, position, lineSamples) ==
    IF d.autoCalibrate
    THEN With(FindSyncPulse(buf, mode, d.visFreqShift,
                            position - 4 * lineSamples, position + lineSamples \div 10),
              LAMBDA nextSync : IF nextSync # -1 THEN nextSync ELSE position)
    ELSE position

\* The cursor after a line: with autoCalibrate, the sync pulse found within a
\* tenth of a line of it, if there is one.
Resync(buf, mode, d, position, lineSamples) ==
    IF d.autoCalibrate
    THEN With(FindSyncPulse(buf, mode, d.visFreqShift,
                            position - lineSamples \div 10, position + lineSamples \div 10),
              LAMBDA nextSync : IF nextSync # -1 THEN nextSync ELSE position)
    ELSE position

\* One pass of the PD loop: a line pair; the loop does not test the cursor,
\* and the last pair is not followed by a search for the next sync.
DecodeLinePD(buf, mode, d, r) ==
    LET startPos == r.position + FloorSamples(mode.syncPulse + mode.syncPorch)
        position == startPos + 4 * FloorSamples(mode.componentTime)
    IN  With(DecodeScanLinePD(buf, mode, r.data, r.chromaU, r.chromaV, startPos, r.y),
             LAMBDA pair :
               [r EXCEPT !.data = pair.data, !.chromaU = pair.chromaU,
                         !.chromaV = pair.chromaV, !.y = r.y + 2,
                         !.position = IF r.y + 2 < mode.lines
                                      THEN Resync(buf, mode, d, position,
                                                  FloorSamples(4 * mode.componentTime))
                                      ELSE position])

\* One pass of the RGB loop: green, blue, red, a separator between them.
DecodeLineRGB(buf, mode, d, r) ==
    LET total     == FloorSamples(mode.scanTime)
        separator == FloorSamples(mode.separatorPulse)
        p1 == r.position + FloorSamples(mode.syncPulse + mode.syncPorch)
        p2 == p1 + total + separator
        p3 == p2 + total + separator
    IN  With(DecodeScanLine(buf, mode, r.data, p1, r.y, 1),
             LAMBDA d1 :
               With(DecodeScanLine(buf, mode, d1, p2, r.y, 2),
                    LAMBDA d2 :
                      [r EXCEPT !.data = DecodeScanLine(buf, mode, d2, p3, r.y, 0),
                                !.y = r.y + 1,
                                !.position = Resync(buf, mode, d, p3 + total, total)]))

\* One pass of the Robot 36 loop: the Y scan, then, if the buffer has not
\* ended, the separator, the porch and the chroma scan of the line's type
\* (V on even lines, U on odd lines).
DecodeLineYUV(buf, mode, d, r) ==
    LET p1 == r.position + FloorSamples(mode.syncPulse + mode.syncPorch)
        p2 == p1 + FloorSamples(88000)
        p3 == p2 + FloorSamples(4500) + FloorSamples(1500)
        chroma   == p2 < buf.len /\ p3 < buf.len
        position == IF p2 >= buf.len THEN p2
                    ELSE IF p3 >= buf.len THEN p3
                    ELSE p3 + FloorSamples(44000)
    IN  [r EXCEPT
           !.data = DecodeScanLineYUV(buf, mode, d.freqOffset, r.data, p1, r.y),
           !.y = r.y + 1,
           !.chromaV = IF chroma /\ r.y % 2 = 0
                       THEN DecodeScanLineChroma(buf, mode, d.freqOffset, r.chromaV, p3, r.y)
                       ELSE r.chromaV,
           !.chromaU = IF chroma /\ r.y % 2 = 1
                       THEN DecodeScanLineChroma(buf, mode, d.freqOffset, r.chromaU, p3, r.y)
                       ELSE r.chromaU,
           !.position = Resync(buf, mode, d, position, FloorSamples(mode.scanTime))]

\* The line loop goes on: every line pair for PD, and for the other formats
\* while the cursor is inside the buffer.
LoopContinues(mode, r, buf) ==
    /\ r.y < mode.lines
    /\ (mode.colorFormat = "PD" \/ r.position < buf.len)

DecodeLine ==
    /\ run.pc = "lines"
    /\ LoopContinues(Frame(dec.mode), run, samples)
    /\ \E mode \in {Frame(dec.mode)} :
         \E next \in {CASE mode.colorFormat = "PD"  -> DecodeLinePD(samples, mode, dec, run)
                        [] mode.colorFormat = "RGB" -> DecodeLineRGB(samples, mode, dec, run)
                        [] OTHER -> DecodeLineYUV(samples, mode, dec, run)} :
           run' = [next EXCEPT
                     !.overflow = run.overflow
                                    \/ (next.position >= samples.len /\ next.y < mode.lines)]
    /\ UNCHANGED <<enc, dec, samples, panel>>

\* The loop is over: the colour conversion, the quality analysis, and the
\* frame returned with its diagnostics.
DecodeFinish ==
    /\ run.pc = "lines"
    /\ ~LoopContinues(Frame(dec.mode), run, samples)
    /\ \E mode \in {Frame(dec.mode)} :
         \E data \in {CASE mode.colorFormat = "YUV" ->
                             ConvertYUVtoRGB(mode, run.data, run.chromaU, run.chromaV)
                        [] mode.colorFormat = "PD" ->
                             ConvertPDtoRGB(mode, run.data, run.chromaU, run.chromaV)
                        [] OTHER -> run.data} :
           run' = [run EXCEPT !.pc = "done", !.data = data,
                              !.result = FrameResult(mode, dec, data)]
    /\ UNCHANGED <<enc, dec, samples, panel>>

\* The encoder's variable while only the decoder runs.
EncoderIdle == enc = EncoderNew("ROBOT36")

DecInit ==
    /\ EncoderIdle
    /\ PanelIdle
    /\ \E autoCalibrate \in BOOLEAN : dec = DecoderNew(autoCalibrate)
    /\ samples \in SampleBuffers
    /\ run = RunStart(<< >>)

DecNext ==
    \/ DetectCandidate
    \/ DetectFallback
    \/ DecodeStart
    \/ DecodeLine
    \/ DecodeFinish

\* decodeAudio on a new decoder, over every sample buffer.
SpecDec == DecInit /\ [][DecNext]_vars

----------------------------------------------------------------------------
(* One decoder, several invocations of decodeAudio *)

\* The number of invocations of decodeAudio on one decoder.
MaxInvocations == 3

\* The buffers handed to a decoder that is used again: a Robot 36
\* transmission, and Robot 36 lines with no VIS frame before them.
ReuseBuffers == {Recordings.ROBOT36, OtherRecordings.novis}

\* decodeAudio(audioFile) on a decoder whose earlier invocation has returned
\* or thrown: the fields of the decoder are as that invocation left them.
DecodeAgain(buf) ==
    /\ run.pc \in {"done", "error"}
    /\ Len(run.log) + 1 < MaxInvocations
    /\ run' = RunStart(Append(run.log, [samples |-> samples, result |-> run.result]))
    /\ samples' = buf
    /\ UNCHANGED <<enc, dec, panel>>

ReuseInit ==
    /\ EncoderIdle
    /\ PanelIdle
    /\ \E autoCalibrate \in BOOLEAN : dec = DecoderNew(autoCalibrate)
    /\ samples \in ReuseBuffers
    /\ run = RunStart(<< >>)

ReuseNext ==
    \/ DetectCandidate
    \/ DetectFallback
    \/ DecodeStart
    \/ DecodeLine
    \/ DecodeFinish
    \/ \E buf \in ReuseBuffers : DecodeAgain(buf)

\* One decoder decoding one buffer after another.
SpecReuse == ReuseInit /\ [][ReuseNext]_vars

----------------------------------------------------------------------------
(* Claims about the decoder *)

\* decodeAudio has returned a frame.
FrameReturned == run.pc = "done" /\ run.result.kind = "frame"

\* C1: every one of the width x lines pixels of a frame decodeImage returns
\* has alpha 255, the buffers that end before the last line included.
C1_DecodedAlpha ==
    FrameReturned =>
        /\ Len(run.result.data) = run.result.width * run.result.lines
        /\ \A i \in 1..Len(run.result.data) : run.result.data[i][4] = 255

\* A frame returned from a buffer that ended with lines left to decode.
C1_Witness ==
    /\ FrameReturned
    /\ run.overflow
    /\ \E i \in 1..Len(run.result.data) : run.result.data[i] # <<0, 0, 0, 255>>

\* The buffer starts with the VIS frame addVISCode emits for the mode.
StartsWithVisFrame(key) ==
    /\ Len(samples.runs) >= Len(VISTones(SSTV_MODES[key].visCode))
    /\ SubSeq(samples.runs, 1, Len(VISTones(SSTV_MODES[key].visCode)))
         = VISTones(SSTV_MODES[key].visCode)

\* C2: on the VIS frame the encoder emits for a registry mode, detectMode
\* returns from its VIS search with that mode, the parity check passed, the
\* mode's registered code as visCode and a frequency shift of 0.
C2_VisRoundTrip ==
    \A key \in RegistryKeys :
        (StartsWithVisFrame(key) /\ run.pc # "detect") =>
            /\ run.detected = "vis"
            /\ dec.mode = key
            /\ dec.lastVisCode = SSTV_MODES[key].visCode
            /\ dec.lastVisParityOk
            /\ dec.visFreqShift = 0

\* detectMode has returned on the VIS frame of Martin 1, whose code reads
\* differently from either end.
C2_Witness ==
    /\ StartsWithVisFrame("MARTIN1")
    /\ run.pc = "decode"
    /\ dec.lastVisCode = 44

\* Every search for the first sync pulse of the invocation came back with -1.
NoFirstSync ==
    /\ run.pc \in {"lines", "done", "error"}
    /\ FirstSync(samples, Frame(dec.mode), dec) = -1

\* C4: when every search for the first sync pulse finds none, decoding fails
\* with the sync pulse message, with no pixels and no diagnostics; no frame
\* is returned.
C4_NoSyncFound ==
    NoFirstSync =>
        /\ run.pc = "error"
        /\ run.result = ErrorResult(NoSyncMessage)
        /\ run.result.message
             = "Could not find sync pulse. Make sure this is a valid SSTV transmission."
        /\ run.data = << >>
        /\ ~FrameReturned

\* Decoding a bare tone has failed for want of a sync pulse.
C4_Witness ==
    /\ NoFirstSync
    /\ run.pc = "error"
    /\ samples = OtherRecordings.tone

\* C5 as stated: when neither the VIS search nor the timing search succeeds,
\* detectMode leaves Robot 36, no VIS code and a frequency shift of 0.
C5_DefaultResult ==
    run.detected = "default" =>
        /\ dec.mode = "ROBOT36"
        /\ dec.lastVisCode = Undefined
        /\ dec.visFreqShift = 0

C3_Deterministic ==
    run.pc \in {"done", "error"} =>
        \A j \in 1..Len(run.log) :
            run.log[j].samples = samples => run.log[j].result = run.result

----------------------------------------------------------------------------
(* The WAV writer and the reader of 16-bit PCM *)

\* Samples are kept as integers k standing for k / WavGrid.
WavGrid == 50

\* The number of samples of the arrays handed to createWAV.
WavLen == 1

\* The sample values handed to createWAV: [-1, 1] on the grid, and a few
\* outside it.
WavValues == (-WavGrid - 2)..(WavGrid + 2)

\* The integer part of a / b, towards zero, for b > 0 (ToInt16 of a number
\* within the 16 bit range).
Truncate16(a, b) == IF a >= 0 THEN a \div b ELSE -((-a) \div b)

\* view.setInt16(offset, Math.max(-1, Math.min(1, samples[i])) * 0x7fff, true)
WriteSample(k) == Truncate16(Max(-WavGrid, Min(WavGrid, k)) * 32767, WavGrid)

\* view.getInt16(dataOffset + i * 2, true) / 32768.0, kept as its numerator
\* over 32768.
ReadSample(int16) == int16

\* createWAV(samples): the 16 bit words of the data chunk.
CreateWAVData ==
    /\ run.pc = "write"
    /\ enc' = [enc EXCEPT !.wav = [i \in 1..Len(enc.samples) |-> WriteSample(enc.samples[i])]]
    /\ run' = [run EXCEPT !.pc = "read"]
    /\ UNCHANGED <<dec, samples, panel>>

\* decodeAudioData(arrayBuffer), getChannelData(0): the samples read back.
DecodeAudioData ==
    /\ run.pc = "read"
    /\ samples' = [i \in 1..Len(enc.wav) |-> ReadSample(enc.wav[i])]
    /\ run' = [run EXCEPT !.pc = "done"]
    /\ UNCHANGED <<enc, dec, panel>>

WavInit ==
    /\ \E s \in [1..WavLen -> WavValues] : enc = [samples |-> s, wav |-> << >>]
    /\ dec = [mode |-> "none"]
    /\ run = [pc |-> "write"]
    /\ samples = << >>
    /\ PanelIdle

WavNext ==
    \/ CreateWAVData
    \/ DecodeAudioData

\* Samples written by createWAV and read back by decodeAudioData.
SpecWav == WavInit /\ [][WavNext]_vars

\* C11 as stated: every sample in [-1, 1] written by createWAV and read back
\* by decodeAudioData is within 1/32768 of the original.
C11_WavRoundTrip ==
    run.pc = "done" =>
        \A i \in 1..Len(samples) :
            Abs(enc.samples[i]) <= WavGrid =>
                Abs(32768 * enc.samples[i] - WavGrid * samples[i]) <= WavGrid

----------------------------------------------------------------------------
(* analyzeImageQuality on its own *)

\* The number of pixels of the frames handed to analyzeImageQuality.
QualityPixels == 2

\* The byte values the colours of those frames are made of: the values on
\* either side of each threshold of the table.
QualityLevels == {0, 9, 10, 40, 41, 80, 81, 120, 121, 255}

\* A canvas of one colour.
UniformFrame(r, g, b) == [i \in 1..QualityPixels |-> <<r, g, b, 255>>]

\* analyzeImageQuality(ctx, canvas.width, canvas.height) as decodeImage calls
\* it on the canvas it has drawn.
AnalyzeQuality ==
    /\ run.pc = "quality"
    /\ run' = [run EXCEPT !.pc = "done", !.result = AnalyzeImageQuality(run.data)]
    /\ UNCHANGED <<enc, dec, samples, panel>>

QualityInit ==
    /\ EncoderIdle
    /\ PanelIdle
    /\ dec = DecoderNew(TRUE)
    /\ samples = << >>
    /\ \E r \in QualityLevels, g \in QualityLevels, b \in QualityLevels :
         run = [pc |-> "quality", data |-> UniformFrame(r, g, b), result |-> NoResult]

QualityNext == AnalyzeQuality

\* analyzeImageQuality over frames of every colour.
SpecQuality == QualityInit /\ [][QualityNext]_vars

\* The averages of a frame of one colour, and the quantities of the table.
FrameColour == run.data[1]
Brightness3 == FrameColour[1] + FrameColour[2] + FrameColour[3]
GreenDominance2 == 2 * FrameColour[2] - FrameColour[1] - FrameColour[3]
Imbalance ==
    Max(FrameColour[1], Max(FrameColour[2], FrameColour[3]))
      - Min(FrameColour[1], Min(FrameColour[2], FrameColour[3]))

\* C12: the verdict is that of the first matching row, in order: brightness
\* < 10 bad; green dominance > 40 bad; imbalance > 80 and brightness < 40
\* warn; imbalance > 120 warn; otherwise good; and the warnings hold exactly
\* one message when the verdict is bad or warn, none when it is good.
C12_VerdictTable ==
    run.pc = "done" =>
        /\ run.result.verdict =
              (CASE Brightness3 < 30 -> "bad"
                 [] Brightness3 >= 30 /\ GreenDominance2 > 80 -> "bad"
                 [] Brightness3 >= 30 /\ GreenDominance2 <= 80
                      /\ Imbalance > 80 /\ Brightness3 < 120 -> "warn"
                 [] Brightness3 >= 30 /\ GreenDominance2 <= 80
                      /\ ~(Imbalance > 80 /\ Brightness3 < 120) /\ Imbalance > 120 -> "warn"
                 [] OTHER -> "good")
        /\ (run.result.verdict \in {"bad", "warn"} => Len(run.result.warnings) = 1)
        /\ (run.result.verdict = "good" => run.result.warnings = << >>)
        /\ run.result.verdict \in {"bad", "warn", "good"}

\* A frame both the green tint row and the later imbalance row match has
\* been judged.
C12_Witness ==
    /\ run.pc = "done"
    /\ Brightness3 >= 30 /\ GreenDominance2 > 80 /\ Imbalance > 120
    /\ run.result.verdict = "bad"

----------------------------------------------------------------------------
(* The DecoderPanel component: decoding the audio a URL names *)

\* The number of decodeUrl calls one panel makes.
MaxCalls == 2

\* The URLs handed to the panel as triggerUrl.
TriggerUrls == {"examples/iss-test.wav", "examples/bad.wav"}

\* What the parent's onTriggerConsumed does: the App clears the URL it
\* passes as triggerUrl; another parent leaves it.
ConsumeKinds == {"clear", "keep"}

\* What the worker's decoder does with a request: it returns a frame, or
\* throws an Error with a message.
WorkerOutcomes ==
    { [returned |-> TRUE,  message |-> ""],
      [returned |-> FALSE, message |-> "Could not detect SSTV mode"],
      [returned |-> FALSE, message |-> "Could not find sync pulse"] }

\* The files handed to the drop zone.
FileTypes == {"audio/wav", "image/png"}

\* The number of files one panel turns down.
MaxRejected == 1

\* <DecoderPanel triggerUrl={null} onTriggerConsumed={...} ... /> rendered.
\* `shown` is what the parent shows of the last decode (the App's
\* decodeResult and decodeError), `dirty` that its state has changed since it
\* last rendered, `triggers` the times it has set a triggerUrl.
PanelNew(consume) ==
    [ mounted |-> TRUE, triggerUrl |-> "null", consume |-> consume,
      processing |-> FALSE, calls |-> << >>,
      shown |-> "none", dirty |-> FALSE, triggers |-> 0, rejected |-> 0,
      consumed |-> 0, errors |-> 0, results |-> 0, resets |-> 0 ]

\* A decode attempt at its first await: decodeUrl at the fetch, runDecode at
\* file.arrayBuffer().  `reports` are its calls of onResult and onError,
\* `received` the requests its worker's onmessage has handled, `posted` the
\* messages that worker has posted, `event` the worker's error event.
Attempt(origin) ==
    [ pc |-> IF origin = "url" THEN "fetch" ELSE "buffer", origin |-> origin,
      reports |-> << >>, received |-> << >>, posted |-> << >>, event |-> "none" ]

\* The effect on [triggerUrl, decodeUrl]: decodeUrl(triggerUrl) runs up to
\* its first await, the fetch.
EffectRuns(p, url) == [p EXCEPT !.calls = Append(@, Attempt("url"))]

\* The parent's onError and onResult: the error or the result is shown.
Report(p, c, kind) ==
    [p EXCEPT !.calls[c].reports = Append(@, kind),
              !.errors = IF kind = "error" THEN @ + 1 ELSE @,
              !.results = IF kind = "result" THEN @ + 1 ELSE @,
              !.dirty = TRUE,
              !.shown = kind]

\* The start of runDecode: setProcessing(true) and onReset(), which clears
\* what the parent shows.
StartDecode(p) ==
    [p EXCEPT !.processing = TRUE,
              !.resets = @ + 1,
              !.dirty = @ \/ p.shown # "none",
              !.shown = "none"]

\* The end of decodeUrl with onTriggerConsumed called only when nothing was
\* thrown.
EndCall_TryOnly(p, c, thrown) ==
    With(IF thrown THEN Report(p, c, "error") ELSE p,
         LAMBDA q :
           [q EXCEPT !.calls[c].pc = "done",
                     !.processing = IF thrown THEN FALSE ELSE @,
                     !.consumed = IF thrown THEN @ ELSE @ + 1,
                     !.dirty = @ \/ (~thrown /\ q.consume = "clear"),
                     !.triggerUrl = IF ~thrown /\ q.consume = "clear" THEN "null" ELSE @])

\* The end of decodeUrl: the catch clause when something was thrown (onError,
\* setProcessing(false)), then the finally clause (onTriggerConsumed).
EndCall(p, c, thrown) ==
    With(IF thrown THEN Report(p, c, "error") ELSE p,
         LAMBDA q :
           [q EXCEPT !.calls[c].pc = "done",
                     !.processing = IF thrown THEN FALSE ELSE @,
                     !.consumed = @ + 1,
                     !.dirty = @ \/ q.consume = "clear",
                     !.triggerUrl = IF q.consume = "clear" THEN "null" ELSE @])

\* (variant) runDecode without its catch clause reporting: a failure is not
\* passed to onError.
EndDecode_Silent(p, c, failed) ==
    [(IF failed THEN p ELSE Report(p, c, "result")) EXCEPT !.processing = FALSE]

\* The end of runDecode: onError or onResult, then setProcessing(false) in
\* its finally clause.  runDecode catches what its body throws.
EndDecode(p, c, failed) ==
    [Report(p, c, IF failed THEN "error" ELSE "result") EXCEPT !.processing = FALSE]

\* The end of an attempt once runDecode has ended: a decode started from a
\* file is over, one started from a URL returns into decodeUrl.
EndAttempt(p, c) ==
    IF p.calls[c].origin = "url" THEN EndCall(p, c, FALSE)
    ELSE [p EXCEPT !.calls[c].pc = "done"]

\* The parent sets a triggerUrl (the gallery's onTryDecode) and renders: the
\* effect runs.
SetTrigger(url) ==
    /\ panel.mounted
    /\ panel.triggerUrl = "null"
    /\ Len(panel.calls) < MaxCalls
    /\ panel' = EffectRuns([panel EXCEPT !.triggerUrl = url, !.triggers = @ + 1,
                                         !.dirty = FALSE], url)
    /\ UNCHANGED <<enc, dec, run, samples>>

\* The parent, its state changed, renders again: the panel gets an onError
\* and an onTriggerConsumed of a new identity, decodeUrl is a new function,
\* and with a triggerUrl the effect runs again.
Rerender ==
    /\ panel.mounted
    /\ panel.dirty
    /\ panel.triggerUrl # "null" => Len(panel.calls) < MaxCalls
    /\ panel' = IF panel.triggerUrl # "null"
                THEN EffectRuns([panel EXCEPT !.dirty = FALSE], panel.triggerUrl)
                ELSE [panel EXCEPT !.dirty = FALSE]
    /\ UNCHANGED <<enc, dec, run, samples>>

\* A file is dropped on the drop zone or selected, which `processing`
\* disables: handleFile turns down what is not audio and starts runDecode
\* on the rest, up to await file.arrayBuffer().
HandleFile(type) ==
    /\ panel.mounted
    /\ ~panel.processing
    /\ IF type \in {"audio/wav"} THEN Len(panel.calls) < MaxCalls
                                  ELSE panel.rejected < MaxRejected
    /\ panel' = IF type \in {"audio/wav"}
                THEN StartDecode([panel EXCEPT !.calls = Append(@, Attempt("file"))])
                ELSE [panel EXCEPT !.rejected = @ + 1, !.errors = @ + 1,
                                   !.shown = "error", !.dirty = TRUE]
    /\ UNCHANGED <<enc, dec, run, samples>>

\* await fetch(url) settles.
FetchSettles(c, ok) ==
    /\ panel.mounted
    /\ c \in 1..Len(panel.calls)
    /\ panel.calls[c].pc = "fetch"
    /\ panel' = IF ok THEN [panel EXCEPT !.calls[c].pc = "blob"]
                ELSE EndCall(panel, c, TRUE)
    /\ UNCHANGED <<enc, dec, run, samples>>

\* await response.blob() settles; runDecode(file) starts: setProcessing(true),
\* onReset(), up to await file.arrayBuffer().
BlobSettles(c, ok) ==
    /\ panel.mounted
    /\ c \in 1..Len(panel.calls)
    /\ panel.calls[c].pc = "blob"
    /\ panel' = IF ok THEN StartDecode([panel EXCEPT !.calls[c].pc = "buffer"])
                ELSE EndCall(panel, c, TRUE)
    /\ UNCHANGED <<enc, dec, run, samples>>

\* await file.arrayBuffer() settles; the buffer is posted to a new worker.
BufferSettles(c, ok) ==
    /\ panel.mounted
    /\ c \in 1..Len(panel.calls)
    /\ panel.calls[c].pc = "buffer"
    /\ panel' = IF ok THEN [panel EXCEPT !.calls[c].pc = "worker"]
                ELSE EndAttempt(EndDecode(panel, c, TRUE), c)
    /\ UNCHANGED <<enc, dec, run, samples>>

\* (variant) the worker's onmessage without its catch clause.
WorkerPosts_NoCatch(outcome) ==
    IF outcome.returned THEN << [type |-> "result", message |-> ""] >> ELSE << >>

\* The messages the worker's onmessage posts for one request: the result
\* when the decoder returned, in the catch clause the error's message.
WorkerPosts(outcome) ==
    IF outcome.returned THEN << [type |-> "result", message |-> ""] >>
    ELSE << [type |-> "error", message |-> outcome.message] >>

\* The worker's onmessage handles the request.
WorkerHandles(c, outcome) ==
    /\ panel.mounted
    /\ c \in 1..Len(panel.calls)
    /\ panel.calls[c].pc = "worker"
    /\ panel' = [panel EXCEPT !.calls[c].pc = "answered",
                              !.calls[c].received = Append(@, outcome),
                              !.calls[c].posted = @ \o WorkerPosts(outcome)]
    /\ UNCHANGED <<enc, dec, run, samples>>

\* The worker does not come to handle the request (its script fails to
\* load): an error event is fired at the Worker object.
WorkerFails(c) ==
    /\ panel.mounted
    /\ c \in 1..Len(panel.calls)
    /\ panel.calls[c].pc = "worker"
    /\ panel' = [panel EXCEPT !.calls[c].pc = "answered", !.calls[c].event = "error"]
    /\ UNCHANGED <<enc, dec, run, samples>>

\* decodeWithWorker's onmessage or onerror: the worker is terminated and the
\* promise resolved with the message; runDecode reports and returns, and a
\* decodeUrl ends.  pixelsToDataUrl throws when the canvas has no 2d context.
WorkerAnswers(c, context) ==
    /\ panel.mounted
    /\ c \in 1..Len(panel.calls)
    /\ panel.calls[c].pc = "answered"
    /\ panel.calls[c].event = "error" \/ Len(panel.calls[c].posted) > 0
    /\ \E failed \in {\/ panel.calls[c].event = "error"
                      \/ panel.calls[c].posted[1].type = "error"
                      \/ ~context} :
         panel' = EndAttempt(EndDecode(panel, c, failed), c)
    /\ UNCHANGED <<enc, dec, run, samples>>

\* One step of the c-th decode attempt.
CallStep(c) ==
    \/ \E ok \in BOOLEAN : FetchSettles(c, ok)
    \/ \E ok \in BOOLEAN : BlobSettles(c, ok)
    \/ \E ok \in BOOLEAN : BufferSettles(c, ok)
    \/ \E outcome \in WorkerOutcomes : WorkerHandles(c, outcome)
    \/ WorkerFails(c)
    \/ \E context \in BOOLEAN : WorkerAnswers(c, context)

PanelInit ==
    /\ EncoderIdle
    /\ dec = [mode |-> "none"]
    /\ run = [pc |-> "idle"]
    /\ samples = << >>
    /\ \E consume \in ConsumeKinds : panel = PanelNew(consume)

PanelNext ==
    \/ \E url \in TriggerUrls : SetTrigger(url)
    \/ Rerender
    \/ \E type \in FileTypes : HandleFile(type)
    \/ \E c \in 1..MaxCalls : CallStep(c)

\* The panel; every promise an attempt awaits settles (the fetch resolves or
\* rejects, the worker posts a message or raises an error).
SpecPanel ==
    /\ PanelInit
    /\ [][PanelNext]_vars
    /\ \A c \in 1..MaxCalls : WF_vars(CallStep(c))

\* The decode attempts started from a triggerUrl.
UrlCalls == {c \in 1..Len(panel.calls) : panel.calls[c].origin = "url"}

\* The decodeUrl calls that have ended.
CallsEnded == Cardinality({c \in UrlCalls : panel.calls[c].pc = "done"})

\* C13: whenever the panel is given a non-null triggerUrl, onTriggerConsumed
\* is eventually called, once the decode the trigger started has ended,
\* whether the fetch and the decode succeeded or failed.
C13_TriggerConsumed ==
    /\ [](panel.consumed <= CallsEnded)
    /\ \A n \in 1..MaxCalls : (Cardinality(UrlCalls) >= n) ~> (panel.consumed >= n)

\* A triggered decode whose fetch failed has ended and onTriggerConsumed has
\* been called.
C13_Witness ==
    /\ panel.consumed = 1
    /\ panel.errors = 1
    /\ panel.resets = 0
    /\ CallsEnded = 1

----------------------------------------------------------------------------
(* addTone on its own *)

\* The number of addTone calls made on one encoder.
MaxTones == 3

\* The frequencies handed to addTone: the sync and VIS tones, black, white
\* and a mid-grey pixel.
ToneFrequencies == {Hz(FREQ_SYNC), Hz(FREQ_VIS_START), Hz(FREQ_WHITE), PixelFreq(128)}

\* The durations handed to addTone, in microseconds.
ToneDurations == {30000, 9000, 1500}

\* 2 * pi in the unit of the phase.
TwoPi == 255 * SampleRate

\* addTone(samples, frequency, duration): the first sample pushed is
\* Math.sin(this.phase), each sample advances the phase, and the phase is
\* reduced modulo 2 * pi after the last.  `first` is the phase of the first
\* sample, `advance` the phase the samples of the tone add up to.
AddTone(frequency, duration) ==
    /\ Len(enc.tones) < MaxTones
    /\ \E tone \in {Tone(frequency, FloorSamples(duration))} :
         enc' = [enc EXCEPT
                   !.phase = PhaseAfter(enc.phase, << tone >>),
                   !.tones = Append(@, [f |-> tone.f, n |-> tone.n,
                                        first |-> enc.phase,
                                        advance |-> ToneAdvance(tone)])]
    /\ UNCHANGED decVars

ToneInit ==
    /\ enc = [phase |-> 0, tones |-> << >>]
    /\ DecoderIdle

ToneNext ==
    \E frequency \in ToneFrequencies, duration \in ToneDurations :
        AddTone(frequency, duration)

\* Sequences of addTone calls on a new encoder.
SpecTone == ToneInit /\ [][ToneNext]_vars

\* C14: after every addTone call the phase lies in [0, 2 * pi), and the first
\* sample of each tone is taken at the phase at which the tone before it
\* ended: no phase jump at a tone boundary.
C14_PhaseContinuity ==
    /\ enc.phase >= 0
    /\ enc.phase < TwoPi
    /\ \A k \in 1..Len(enc.tones) :
         /\ enc.tones[k].first
              = (IF k = 1 THEN 0
                 ELSE (enc.tones[k - 1].first + enc.tones[k - 1].advance) % TwoPi)
         /\ k = Len(enc.tones) =>
              enc.phase = (enc.tones[k].first + enc.tones[k].advance) % TwoPi

\* A tone has started at a phase other than 0, left by the tone before it.
C14_Witness ==
    /\ Len(enc.tones) >= 2
    /\ enc.tones[2].first # 0
    /\ enc.tones[1].first + enc.tones[1].advance >= 0

----------------------------------------------------------------------------
(* convertYUVtoRGB on its own *)

\* The luma bytes of the frames handed to convertYUVtoRGB.
LumaLevels == {0, 100, 200, 255}

\* The bytes held in the chroma planes.
ChromaLevels == {0, 1, 77, 128, 179, 255}

\* Robot 36 with a frame of one line pair, one pixel wide.
PairMode == [SSTV_MODES.ROBOT36 EXCEPT !.width = 1, !.lines = 2]

\* convertYUVtoRGB(imageData, chromaU, chromaV) as decodeImage calls it when
\* the lines are decoded.
ConvertYUV ==
    /\ run.pc = "convert"
    /\ run' = [run EXCEPT !.pc = "done",
                          !.data = ConvertYUVtoRGB(PairMode, run.data, run.chromaU,
                                                   run.chromaV)]
    /\ UNCHANGED <<enc, dec, samples, panel>>

\* The decoded state before the conversion: the luma in the red byte of both
\* lines, V decoded on the even line and U on the odd line.
ConvertInit ==
    /\ EncoderIdle
    /\ PanelIdle
    /\ dec = [DecoderNew(TRUE) EXCEPT !.mode = "ROBOT36"]
    /\ samples = << >>
    /\ \E Y \in LumaLevels, U \in ChromaLevels, V \in ChromaLevels :
         run = [ pc |-> "convert", luma |-> Y,
                 data |-> << <<Y, Y, Y, 255>>, <<Y, Y, Y, 255>> >>,
                 chromaU |-> <<128, U>>, chromaV |-> <<V, 128>> ]

ConvertNext == ConvertYUV

\* convertYUVtoRGB over every luma and chroma pair.
SpecConvert == ConvertInit /\ [][ConvertNext]_vars

\* C15 as stated: for every luma Y and chroma pair (U, V) in 0..255 held in
\* the planes, the frame gets R = Y + 1.402 (V - 128), G = Y - 0.344136
\* (U - 128) - 0.714136 (V - 128), B = Y + 1.772 (U - 128), clamped to
\* [0, 255] and rounded.
C15_YuvToRgb ==
    run.pc = "done" =>
        \A i \in 1..Len(run.data) :
            /\ run.data[i][1]
                 = Clamp255(RoundDiv(1000 * run.luma + 1402 * (run.chromaV[1] - 128), 1000))
            /\ run.data[i][2]
                 = Clamp255(RoundDiv(1000000 * run.luma
                                       - 344136 * (run.chromaU[2] - 128)
                                       - 714136 * (run.chromaV[1] - 128), 1000000))
            /\ run.data[i][3]
                 = Clamp255(RoundDiv(1000 * run.luma + 1772 * (run.chromaU[2] - 128), 1000))

----------------------------------------------------------------------------
(* generateAudio called again on the same encoder *)

\* The number of generateAudio calls made on one encoder.
MaxEncodes == 2

\* generateAudio(imageData) on an encoder that is new or has returned:
\* `const samples = []` starts an empty buffer, and this.phase is left as the
\* last addTone left it.  `starts` lists, per call, the raster and the phase
\* at which the first sample Math.sin(this.phase) is taken.
GenerateAudioAgain(pattern) ==
    /\ enc.pc \in {"new", "done"}
    /\ Len(enc.starts) < MaxEncodes
    /\ enc' = [enc EXCEPT !.pc = "vis", !.entry = "generateAudio",
                          !.img = [pattern |-> pattern,
                                   width |-> SSTV_MODES[enc.key].width,
                                   height |-> 2 * ShortLinePairs],
                          !.n = 0, !.y = 0, !.vis = << >>, !.line = << >>,
                          !.result = "none", !.wavSamples = 0,
                          !.starts = Append(@, [pattern |-> pattern,
                                                phase |-> enc.phase])]
    /\ UNCHANGED decVars

AgainInit ==
    /\ \E key \in RegistryKeys : enc = EncoderNew(key) @@ [starts |-> << >>]
    /\ DecoderIdle

AgainNext ==
    \/ \E pattern \in Patterns : GenerateAudioAgain(pattern)
    \/ AddVISCode
    \/ AddImageLine
    \/ CreateWAV

\* One encoder used for several encodes.
SpecAgain == AgainInit /\ [][AgainNext]_vars

\* C16 as stated: every encode begins with the phase at 0, so two encodes of
\* the same image on one encoder take their first sample at the same phase
\* and yield the same samples.
C16_EncodeResets ==
    \A k \in 1..Len(enc.starts) :
        /\ enc.starts[k].phase = 0
        /\ \A j \in 1..k :
             enc.starts[j].pattern = enc.starts[k].pattern =>
                 enc.starts[j].phase = enc.starts[k].phase

----------------------------------------------------------------------------
(* The search for the first sync pulse *)

\* visEnd of decodeImage: this.visEndPos, or 0.61 s when detectMode set none.
VisEnd == IF dec.visEndPos # 0 THEN dec.visEndPos ELSE FloorSamples(610000)

\* lineSamplesInit of decodeImage.
LineSamplesInit ==
    FloorSamples(IF Frame(dec.mode).scanTime = 0 THEN 150000 ELSE Frame(dec.mode).scanTime)

C17_SecondAttempt ==
    /\ run.pc = "lines"
    /\ Len(run.attempts) = 2
    /\ run.attempts[2].result >= run.attempts[1].endPos

----------------------------------------------------------------------------
(* detectModeByTiming's match of the measured period *)

\* The samples between two sync pulses of a transmission of the mode: what
\* addImageData emits for one line, for one line pair in PD 120.
LinePeriod(key) ==
    TotalSamples(LineTones(Frame(key),
                           LineScans(Frame(key),
                                     [pattern |-> "gray", width |-> Frame(key).width,
                                      height |-> Frame(key).lines], 0), 0))

\* The measured distances between two syncs, in samples: each mode's line
\* period, and 8% and 15% off it either way.
PeriodPercents == {85, 92, 100, 108, 115}

MeasuredPeriods ==
    {(LinePeriod(key) * percent) \div 100 : key \in RegistryKeys, percent \in PeriodPercents}

\* The positions the first sync is found at.
FirstSyncs == {24000, 38400}

\* The loop of detectModeByTiming over Object.entries(SSTV_MODES), on the
\* syncs collected.
MatchPeriod ==
    /\ run.pc = "match"
    /\ run' = [run EXCEPT !.pc = "done", !.mode = ModeOfPeriod(run.syncs)]
    /\ UNCHANGED <<enc, dec, samples, panel>>

TimingInit ==
    /\ EncoderIdle
    /\ PanelIdle
    /\ dec = DecoderNew(TRUE)
    /\ samples = << >>
    /\ \E first \in FirstSyncs, period \in MeasuredPeriods, count \in 2..3 :
         run = [ pc |-> "match", mode |-> "none",
                 syncs |-> [k \in 1..count |-> first + (k - 1) * period] ]

TimingNext == MatchPeriod

\* The period match over measured periods around every mode's line period.
SpecTiming == TimingInit /\ [][TimingNext]_vars

\* The modes whose line period is within 10% of the period the syncs of the
\* run are apart.
ModesNear ==
    {key \in RegistryKeys :
        10 * Abs((run.syncs[Len(run.syncs)] - run.syncs[1])
                   - (Len(run.syncs) - 1) * LinePeriod(key))
          < (Len(run.syncs) - 1) * LinePeriod(key)}

\* C18 as stated: a measured period within 10% of a mode's line period (the
\* full line for Robot 36, Martin M1 and Scottie S1, 4 * componentTime + sync
\* + porch for PD 120) makes that mode, or where two modes are that near one
\* of them, the detection result.
C18_PeriodMatch ==
    run.pc = "done" /\ ModesNear # {} => run.mode \in ModesNear

----------------------------------------------------------------------------
(* decodeScanLine on its own *)

\* The channel values of the scans handed to decodeScanLine.
ScanLevels == {0, 64, 128, 255}

\* this.freqOffset while the line is decoded, in Hz.
FreqOffsets == {0, 100, 150, -60}

\* The RGB modes.
RGBKeys == {key \in RegistryKeys : SSTV_MODES[key].colorFormat = "RGB"}

\* The tones of one channel scan of addScanLine for the values `sent`, every
\* tone `offset` Hz off.
ShiftedScan(mode, sent, offset) ==
    [k \in 1..mode.width |->
        BoundaryTone(PixelFreq(sent[k]) + Hz(offset), k - 1, mode.width,
                     FloorSamples(mode.scanTime))]

\* decodeScanLine(samples, 0, imageData, 0, channel) on a blank frame.
ScanLine ==
    /\ run.pc = "scan"
    /\ run' = [run EXCEPT !.pc = "done",
                          !.data = DecodeScanLine(samples, Frame(dec.mode), run.data, 0, 0,
                                                  run.channel)]
    /\ UNCHANGED <<enc, dec, samples, panel>>

ScanInit ==
    /\ EncoderIdle
    /\ PanelIdle
    /\ \E key \in RGBKeys, offset \in FreqOffsets, channel \in 0..2, v \in ScanLevels :
         \E sent \in {[k \in 1..Frame(key).width |-> IF k % 2 = 1 THEN v ELSE 255 - v]} :
           /\ dec = [DecoderNew(TRUE) EXCEPT !.mode = key, !.freqOffset = offset]
           /\ samples = Buffer(ShiftedScan(Frame(key), sent, offset))
           /\ run = [ pc |-> "scan", channel |-> channel, sent |-> sent,
                      data |-> BlankFrame(Frame(key)) ]

ScanNext == ScanLine

\* One channel scan of an RGB mode, its tones off by the decoder's offset.
SpecScan == ScanInit /\ [][ScanNext]_vars

\* C19 as stated: in the RGB modes a channel value is (freq - (FREQ_BLACK +
\* offset)) / ((FREQ_WHITE + offset) - (FREQ_BLACK + offset)) * 255, clamped
\* and rounded, offset being the decoder's frequency offset, so a scan whose
\* tones are all off by that offset decodes to the values of the scan sent.
C19_OffsetScan ==
    run.pc = "done" =>
        \A x \in 0..(Frame(dec.mode).width - 1) :
            LET w == ScanWindow(0, FloorSamples(Frame(dec.mode).scanTime),
                                Frame(dec.mode).width, x, 0)
            IN  /\ run.data[x + 1][run.channel + 1]
                     = ValueOf(DetectFrequencyRange(samples, w.pos, w.n),
                               FREQ_BLACK + dec.freqOffset)
                /\ run.data[x + 1][run.channel + 1] = run.sent[x + 1]

----------------------------------------------------------------------------
(* The parity check of detectMode *)

\* C20: detectMode returns no VIS-detected mode from a candidate whose parity
\* bit differs from the number of 1 data bits modulo 2: the decodeVIS call
\* behind a VIS-detected mode passed the parity check, and the scan has gone on
\* past every candidate that failed it.
C20_ParityAbandons ==
    /\ run.detected = "vis" => dec.lastVisParityOk
    /\ \A k \in 1..Len(run.rejected) :
         /\ run.rejected[k] < run.i
         /\ k > 1 => run.rejected[k - 1] < run.rejected[k]
         /\ run.detected = "vis" => dec.visEndPos > run.rejected[k]

\* Candidates of the first VIS frame failed the parity check, and the mode was
\* then detected from the VIS frame sent after it.
C20_Witness ==
    /\ Len(run.rejected) > 0
    /\ run.detected = "vis"
    /\ run.pc = "done"
    /\ dec.mode = "MARTIN1"

----------------------------------------------------------------------------
(* estimateFreqOffset on its own *)

\* The most lines of the recordings handed to estimateFreqOffset.
MaxOffsetLines == 7

\* How far off, in Hz, the transmitter of a recording is tuned.
Mistunings == {0, 60, 100, -60}

\* Tones moved by `offset` Hz.
ShiftTones(tones, offset) ==
    [k \in 1..Len(tones) |-> Tone(tones[k].f + Hz(offset), tones[k].n)]

\* Lines y, y + 1, ... of a grey Robot 36 raster of `lines` rows as
\* addImageData emits them, the even rows `a` Hz off and the odd rows `b` Hz.
RECURSIVE MistunedLines(_, _, _, _)
MistunedLines(lines, y, a, b) ==
    IF y >= lines THEN << >>
    ELSE LET mode == Frame("ROBOT36")
             img  == [pattern |-> "gray", width |-> mode.width, height |-> lines]
         IN  ShiftTones(LineTones(mode, LineScans(mode, img, y), y),
                        IF y % 2 = 0 THEN a ELSE b)
             \o MistunedLines(lines, y + 1, a, b)

\* estimateFreqOffset(samples, 0) as decodeImage calls it once the first sync
\* is found; `offsets` is the array it collected.
EstimateOffset ==
    /\ run.pc = "estimate"
    /\ run' = [run EXCEPT
                 !.pc = "done",
                 !.offsets = SyncOffsets(samples, Frame(dec.mode), dec.visFreqShift, 0, 0),
                 !.refined = EstimateFreqOffset(samples, Frame(dec.mode),
                                                dec.visFreqShift, 0)]
    /\ UNCHANGED <<enc, dec, samples, panel>>

OffsetInit ==
    /\ EncoderIdle
    /\ PanelIdle
    /\ dec = [DecoderNew(TRUE) EXCEPT !.mode = "ROBOT36"]
    /\ \E lines \in 1..MaxOffsetLines, a \in Mistunings, b \in Mistunings :
         samples = Buffer(MistunedLines(lines, 0, a, b))
    /\ run = [pc |-> "estimate", offsets |-> << >>, refined |-> 0]

OffsetNext == EstimateOffset

\* estimateFreqOffset over recordings of one to MaxOffsetLines lines.
SpecOffset == OffsetInit /\ [][OffsetNext]_vars

\* The middle elements of the offsets in ascending order: one for an odd
\* count, two for an even count.
Medians(offsets) ==
    LET sorted == SortSeq(offsets, LAMBDA x, y : x < y)
    IN  {sorted[(Len(offsets) + 1) \div 2], sorted[Len(offsets) \div 2 + 1]}

\* C21 as stated: estimateFreqOffset returns the median of the offsets it
\* recorded when that is more than 50 Hz either way, and 0 otherwise.
C21_MedianOffset ==
    run.pc = "done" /\ Len(run.offsets) > 0 =>
        \E median \in Medians(run.offsets) :
            run.refined = (IF Abs(median) > 50 THEN median ELSE 0)

----------------------------------------------------------------------------
(* The chroma planes of Robot 36 *)

\* C22: the pass of the line loop over Robot 36 line y leaves every row but y
\* of both chroma planes as it was, leaves the U plane as it was when y is
\* even and the V plane when y is odd, and leaves columns 2x and 2x + 1 of
\* row y with the same value.
C22_ChromaRow ==
    [][ ( /\ run.pc = "lines"
          /\ run'.pc = "lines"
          /\ run'.y = run.y + 1
          /\ Frame(dec.mode).colorFormat = "YUV" ) =>
            LET y == run.y
                width == Frame(dec.mode).width
            IN  /\ y % 2 = 0 => run'.chromaU = run.chromaU
                /\ y % 2 = 1 => run'.chromaV = run.chromaV
                /\ \A i \in 1..Len(run.chromaU) :
                     (i - 1) \div width # y =>
                         /\ run'.chromaU[i] = run.chromaU[i]
                         /\ run'.chromaV[i] = run.chromaV[i]
                /\ \A x \in 0..((width \div 2) - 1) :
                     /\ run'.chromaU[y * width + 2 * x + 1]
                          = run'.chromaU[y * width + 2 * x + 2]
                     /\ run'.chromaV[y * width + 2 * x + 1]
                          = run'.chromaV[y * width + 2 * x + 2]
      ]_vars

\* Two Robot 36 lines are decoded: row 0 of the V plane and row 1 of the U
\* plane hold decoded chroma, row 0 of the U plane and row 1 of the V plane
\* are still at 128.
C22_Witness ==
    /\ run.pc = "lines"
    /\ dec.mode = "ROBOT36"
    /\ run.y = 2
    /\ run.chromaV[1] # 128
    /\ run.chromaU[Frame("ROBOT36").width + 1] # 128
    /\ run.chromaU[1] = 128
    /\ run.chromaV[Frame("ROBOT36").width + 1] = 128

----------------------------------------------------------------------------
(* The line pairs of PD 120 *)

\* The rows of the frame and of the planes the PD loop has not come to are as
\* decodeImage allocated them.
RowsAheadBlank ==
    \A i \in 1..Len(run.data) :
        (i - 1) \div Frame("PD120").width >= run.y =>
            /\ run.data[i] = <<0, 0, 0, 255>>
            /\ run.chromaU[i] = 128
            /\ run.chromaV[i] = 128

\* C23: the PD 120 loop takes the rows in pairs y = 0, 2, 4, ...; a pass
\* writes Y0 as the luma of row y and Y1 as the luma of row min(y + 1,
\* lines - 1), stores R-Y in rows y and y + 1 of the V plane and B-Y in rows y
\* and y + 1 of the U plane, and touches no other row, so every row is written
\* once the loop is over.
C23_LinePairs ==
    /\ []( run.pc = "lines" /\ dec.mode = "PD120" =>
             /\ run.y % 2 = 0
             /\ run.y <= Frame("PD120").lines
             /\ RowsAheadBlank )
    /\ [][ ( /\ run.pc = "lines"
             /\ dec.mode = "PD120"
             /\ run'.pc = "lines"
             /\ run'.y # run.y ) =>
               LET mode == Frame("PD120")
                   y  == run.y
                   y1 == Min(run.y + 1, mode.lines - 1)
                   startPos == run.position + FloorSamples(mode.syncPulse + mode.syncPorch)
                   Component(c) ==
                       DecodeComponent(samples, mode, startPos,
                                       FloorSamples(mode.componentTime) * c)
                   Luma3(v) == <<v, v, v, 255>>
               IN  /\ run'.y = y + 2
                   /\ \A x \in 1..mode.width :
                        /\ run'.data[y * mode.width + x] = Luma3(Component(0)[x])
                        /\ run'.data[y1 * mode.width + x] = Luma3(Component(3)[x])
                        /\ run'.chromaV[y * mode.width + x] = Component(1)[x]
                        /\ run'.chromaV[(y + 1) * mode.width + x] = Component(1)[x]
                        /\ run'.chromaU[y * mode.width + x] = Component(2)[x]
                        /\ run'.chromaU[(y + 1) * mode.width + x] = Component(2)[x]
                   /\ \A i \in 1..Len(run.data) :
                        (i - 1) \div mode.width \notin {y, y1} =>
                            /\ run'.data[i] = run.data[i]
                            /\ run'.chromaU[i] = run.chromaU[i]
                            /\ run'.chromaV[i] = run.chromaV[i]
         ]_vars

\* The last line pair of a PD 120 recording is decoded: the loop is over, the
\* first row holds decoded luma, and the first and the last row of the planes
\* hold chroma other than what they were allocated with.
C23_Witness ==
    /\ run.pc = "lines"
    /\ dec.mode = "PD120"
    /\ run.y = Frame("PD120").lines
    /\ run.data[1][1] # 0
    /\ run.chromaV[1] # 128
    /\ run.chromaU[Frame("PD120").width + 1] # 128
    /\ run.chromaV[(Frame("PD120").lines - 1) * Frame("PD120").width + 1] # 128
    /\ run.chromaU[(Frame("PD120").lines - 1) * Frame("PD120").width + 1] # 128

----------------------------------------------------------------------------
(* The cursor of the line loop *)

\* What one pass of decodeImage's line loop adds to `position` when every
\* scan fits in the buffer and no sync is searched for.
LineAdvance(mode) ==
    FloorSamples(mode.syncPulse + mode.syncPorch)
      + (CASE mode.colorFormat = "PD"  -> 4 * FloorSamples(mode.componentTime)
           [] mode.colorFormat = "RGB" ->
                3 * FloorSamples(mode.scanTime) + 2 * FloorSamples(mode.separatorPulse)
           [] OTHER -> FloorSamples(88000) + FloorSamples(4500) + FloorSamples(1500)
                         + FloorSamples(44000))

\* `position` when the scans of a pass are over, before the search for the
\* next sync: a Robot 36 pass leaves at the end of the buffer.
CursorAfterScans(buf, mode, r) ==
    LET p2 == r.position + FloorSamples(mode.syncPulse + mode.syncPorch) + FloorSamples(88000)
        p3 == p2 + FloorSamples(4500) + FloorSamples(1500)
    IN  IF mode.colorFormat = "YUV" /\ p2 >= buf.len THEN p2
        ELSE IF mode.colorFormat = "YUV" /\ p3 >= buf.len THEN p3
        ELSE r.position + LineAdvance(mode)

\* A pass of the line loop that is followed by another line.
BetweenLines ==
    /\ run.pc = "lines"
    /\ run'.pc = "lines"
    /\ run'.y # run.y
    /\ run'.y < Frame(dec.mode).lines

\* A tenth of the line period of the mode, in samples, rounded up.
TenthOfLine(key) == (LinePeriod(key) + 9) \div 10

\* C24 as stated: with autoCalibrate, the cursor after a line is moved to a
\* sync found within 10% of the line period of where it stands, and left
\* where it stands when there is none; without autoCalibrate it is never
\* moved.
C24_ResyncWindow ==
    [][ BetweenLines =>
          \E pos \in {CursorAfterScans(samples, Frame(dec.mode), run)} :
            IF /\ dec.autoCalibrate
               /\ FindSyncPulse(samples, Frame(dec.mode), dec.visFreqShift,
                                pos - TenthOfLine(dec.mode), pos + TenthOfLine(dec.mode)) # -1
            THEN /\ SyncAt(samples, Frame(dec.mode), dec.visFreqShift, run'.position)
                 /\ Abs(run'.position - pos) <= TenthOfLine(dec.mode)
            ELSE run'.position = pos
      ]_vars

----------------------------------------------------------------------------
(* The encoder's lines against the decoder's cursor *)

\* The passes of addImageData's loop made so far.
PassesEmitted ==
    IF EncoderMode(enc.key).colorFormat = "PD" THEN enc.y \div 2 ELSE enc.y

\* C25 as stated: for every registered mode the samples the encoder emits for
\* a line (a line pair for PD 120) are as many as the decoder's cursor
\* advances over it without autoCalibrate, so the k-th sync pulse begins
\* where the cursor stands at the start of line k.
C25_LineLengths ==
    enc.pc \in {"image", "done"} /\ enc.key \in RegistryKeys =>
        enc.n = TotalSamples(enc.vis) + PassesEmitted * LineAdvance(SSTV_MODES[enc.key])

----------------------------------------------------------------------------
(* The line cursor moves forward *)

\* The step of the line loop: a line pair for PD, a line for the others.
LineStep(mode) == IF mode.colorFormat = "PD" THEN 2 ELSE 1

\* C26: during image decoding the cursor at the start of a line is strictly
\* greater than at the start of the line before, also when autoCalibrate has
\* moved it back to a sync, and the loop makes at most `lines` passes (half
\* as many for PD 120): a pass is made only at a row below `lines`, and it
\* raises the row by the step of the loop.
C26_CursorAdvances ==
    /\ [](run.pc = "lines" => run.y <= Frame(dec.mode).lines)
    /\ [][ run.pc = "lines" /\ run'.pc = "lines" /\ run' # run =>
             /\ run'.position > run.position
             /\ run.y < Frame(dec.mode).lines
             /\ run'.y = run.y + LineStep(Frame(dec.mode))
         ]_vars

\* A recording decoded with autoCalibrate whose first line ended with the
\* cursor taken back to a sync pulse before it.
C26_Witness ==
    /\ run.pc = "lines"
    /\ dec.autoCalibrate
    /\ run.y = LineStep(Frame(dec.mode))
    /\ run.y < Frame(dec.mode).lines
    /\ run.position < run.attempts[Len(run.attempts)].result + LineAdvance(Frame(dec.mode))
    /\ SyncAt(samples, Frame(dec.mode), dec.visFreqShift, run.position)

----------------------------------------------------------------------------
(* The decoder worker and the panel's decode attempts *)

\* C27: for every decode request the worker receives it posts exactly one
\* message: a 'result' message when the decoder returned, otherwise an
\* 'error' message with the text of the error; a worker that has received
\* nothing has posted nothing.
C27_OneMessage ==
    panel.mounted =>
        \A c \in 1..Len(panel.calls) :
            \E call \in {panel.calls[c]} :
                /\ Len(call.posted) = Len(call.received)
                /\ \A i \in 1..Len(call.received) :
                     call.posted[i] = IF call.received[i].returned
                                      THEN [type |-> "result", message |-> ""]
                                      ELSE [type |-> "error",
                                            message |-> call.received[i].message]

\* A worker whose decoder threw has posted its error message, which the
\* panel has not yet taken.
C27_Witness ==
    /\ panel.mounted
    /\ \E c \in 1..Len(panel.calls) :
         /\ panel.calls[c].pc = "answered"
         /\ Len(panel.calls[c].received) = 1
         /\ ~panel.calls[c].received[1].returned
         /\ panel.calls[c].posted[1].type = "error"

\* C28: each decode attempt the panel starts, from a file or from a
\* triggerUrl, ends with exactly one call of onResult or onError: it has
\* made none while it runs, it has made one when it is over, and it comes to
\* an end.
C28_OneReport ==
    /\ [](panel.mounted =>
            \A c \in 1..Len(panel.calls) :
                Len(panel.calls[c].reports) = IF panel.calls[c].pc = "done" THEN 1 ELSE 0)
    /\ \A c \in 1..MaxCalls :
         (panel.mounted /\ Len(panel.calls) >= c)
            ~> (Len(panel.calls) >= c /\ panel.calls[c].pc = "done")

\* Two attempts are over, one started from a file and one from a triggerUrl,
\* one reported to onResult and one to onError.
C28_Witness ==
    /\ panel.mounted
    /\ \E c, d \in 1..Len(panel.calls) :
         /\ panel.calls[c].pc = "done" /\ panel.calls[c].origin = "file"
         /\ panel.calls[d].pc = "done" /\ panel.calls[d].origin = "url"
         /\ panel.calls[c].reports # panel.calls[d].reports

\* The attempts whose runDecode has started and not ended.
Decoding == {c \in 1..Len(panel.calls) : panel.calls[c].pc \in {"buffer", "worker", "answered"}}

\* C29 as stated: `processing` is true exactly while a decode the panel
\* started is in flight.
C29_ProcessingFlag ==
    panel.mounted => (panel.processing <=> Decoding # {})

\* C30 as stated: each time the App sets decodeUrl to a URL the panel starts
\* exactly one decode for it, however often the App renders before
\* onTriggerConsumed clears it.
C30_OneDecodePerTrigger ==
    panel.mounted /\ panel.consume = "clear" => Cardinality(UrlCalls) = panel.triggers

============================================================================
